---- MODULE Spec2Model ----
(***************************************************************************)
(* A model of the usage pipeline of brag-sh: the cumulative reconciler and *)
(* the state merger (src/lib/usage-state.ts), the aggregator               *)
(* (src/lib/usage-aggregate.ts), the JSON Lines cursor engine              *)
(* (src/lib/usage-parser.ts) and the part of runSyncOnce                   *)
(* (src/commands/sync.ts) that reads, updates and persists the sync state. *)
(*                                                                         *)
(* Strings that the code builds by interpolation (map keys, warnings) are  *)
(* sequences of tokens, joined as the code joins them; a model name is a   *)
(* token sequence too, so that a name containing "::" can be told from the *)
(* separator the code inserts.  An optional field (tokens.input?) is a     *)
(* function whose DOMAIN lacks the field.                                  *)
(***************************************************************************)
EXTENDS Integers, Sequences, FiniteSets, TLC

(***************************************************************************)
(* Bounds of the model.                                                    *)
(***************************************************************************)
MaxRecs == 3        \* records in one batch handed to a pure function
MaxLines == 3       \* lines a usage file grows to
MaxTouch == 1       \* rewrites of the usage file that leave its content as it is
MaxRuns == 2        \* runs of the pipeline on the state the previous run stored
MaxBatch == 2       \* records one such run parses
MaxTime == 40       \* minutes on the clock at a call of getRateLimitStatus
MaxClock == 16      \* minutes on the clock while sync runs follow one another
MaxEnqueued == 23   \* payloads enqueued, more than queue.json keeps
MaxAttempts == 6    \* the greatest maxAttempts a caller passes
MaxWatchRuns == 3   \* runs of one `brag sync --watch`
MaxRunTime == 2     \* minutes a run takes
MaxProcs == 2       \* invocations of the tool at the same time
MaxExpiresIn == 12  \* seconds a device code is valid
MaxLatency == 2     \* seconds the token endpoint takes to answer
MaxEntries == 3

(***************************************************************************)
(* usage-types.ts: TokenTotals (partial) and RequiredTotals.               *)
(***************************************************************************)
Axes == {"input", "output", "cache", "thinking", "total"}

SumAxes == {"input", "output", "cache", "thinking"}

OrZero(t, a) == IF a \in DOMAIN t THEN t[a] ELSE 0

Max0(x) == IF x > 0 THEN x ELSE 0

MaxOf(x, y) == IF x >= y THEN x ELSE y

(***************************************************************************)
(* Strings.  Days are ISO dates; localeCompare on them is their order in   *)
(* DayOrder.  Model names are token sequences ordered lexicographically by *)
(* TokenOrder.                                                             *)
(***************************************************************************)
\* A local constant: body(value), with value computed once.
With(value, body(_)) == CHOOSE result \in {body(v) : v \in {value}} : TRUE

SEP == "::"

DayOrder == <<"2026-01-01", "2026-01-02">>

Days == {DayOrder[i] : i \in DOMAIN DayOrder}

TokenOrder == <<"::", "gpt", "o1", "unknown", "x">>

IndexIn(seq, x) == CHOOSE i \in DOMAIN seq : seq[i] = x

Sign(n) == IF n < 0 THEN -1 ELSE IF n > 0 THEN 1 ELSE 0

localeCompareDay(a, b) == Sign(IndexIn(DayOrder, a) - IndexIn(DayOrder, b))

RECURSIVE localeCompareModel(_, _)
localeCompareModel(a, b) ==
    IF a = <<>> /\ b = <<>> THEN 0
    ELSE IF a = <<>> THEN -1
    ELSE IF b = <<>> THEN 1
    ELSE IF Head(a) # Head(b)
         THEN Sign(IndexIn(TokenOrder, Head(a)) - IndexIn(TokenOrder, Head(b)))
         ELSE localeCompareModel(Tail(a), Tail(b))

\* `${day}::${model}`
DayModelKey(day, model) == <<day, SEP>> \o model

\* `${source}::${day}::${model}`
SourceDayModelKey(source, day, model) == <<source, SEP, day, SEP>> \o model

\* `${day}::${model}::${source}`
DayModelSourceKey(day, model, source) == <<day, SEP>> \o model \o <<SEP, source>>

MapPut(m, k, v) == [x \in (DOMAIN m) \cup {k} |-> IF x = k THEN v ELSE m[x]]

EmptyMap == [x \in {} |-> 0]

(***************************************************************************)
(* usage-state.ts                                                          *)
(***************************************************************************)
emptyTotals == [input |-> 0, output |-> 0, cache |-> 0, thinking |-> 0, total |-> 0]

normalizeTotals(totals) ==
    [input    |-> OrZero(totals, "input"),
     output   |-> OrZero(totals, "output"),
     cache    |-> OrZero(totals, "cache"),
     thinking |-> OrZero(totals, "thinking"),
     total    |-> OrZero(totals, "total")]

\* A bug: the total axis is not added.
addTotalsSkipTotal(target, delta) ==
    [input    |-> target.input + OrZero(delta, "input"),
     output   |-> target.output + OrZero(delta, "output"),
     cache    |-> target.cache + OrZero(delta, "cache"),
     thinking |-> target.thinking + OrZero(delta, "thinking"),
     total    |-> target.total]

addTotals(target, delta) ==
    [input    |-> target.input + OrZero(delta, "input"),
     output   |-> target.output + OrZero(delta, "output"),
     cache    |-> target.cache + OrZero(delta, "cache"),
     thinking |-> target.thinking + OrZero(delta, "thinking"),
     total    |-> target.total + OrZero(delta, "total")]

RECURSIVE mergeLoop(_, _, _)
mergeLoop(next, aggregates, i) ==
    IF i > Len(aggregates) THEN next
    ELSE LET aggregate == aggregates[i]
             key == DayModelKey(aggregate.day, aggregate.model)
             entry == IF key \in DOMAIN next THEN next[key] ELSE emptyTotals
         IN  mergeLoop(MapPut(next, key, addTotals(entry, aggregate.tokens)),
                       aggregates, i + 1)

mergeAggregates(existing, aggregates) == mergeLoop(existing, aggregates, 1)

\* A bug: the snapshot itself is taken as the difference.
cumulativeDeltaFromZero(current, previous) == current

\* The raw per-axis difference current - previous of one cumulative record.
cumulativeDelta(current, previous) ==
    [input    |-> current.input - previous.input,
     output   |-> current.output - previous.output,
     cache    |-> current.cache - previous.cache,
     thinking |-> current.thinking - previous.thinking,
     total    |-> current.total - previous.total]

hasReset(delta) ==
    \/ delta.input < 0
    \/ delta.output < 0
    \/ delta.cache < 0
    \/ delta.thinking < 0
    \/ delta.total < 0

isZeroDelta(delta) ==
    /\ delta.input = 0
    /\ delta.output = 0
    /\ delta.cache = 0
    /\ delta.thinking = 0
    /\ delta.total = 0

\* `Cumulative totals reset detected for ${record.source}.`
resetWarning(source) == <<"Cumulative totals reset detected for ", source, ".">>

\* A bug: negative differences are emitted as they are.
clampDeltaNone(delta) == delta

clampDelta(delta) ==
    [input    |-> Max0(delta.input),
     output   |-> Max0(delta.output),
     cache    |-> Max0(delta.cache),
     thinking |-> Max0(delta.thinking),
     total    |-> Max0(delta.total)]

\* A bug: the baseline is not replaced.
nextSnapshotStale(previous, current) == previous

\* A bug: the baseline is merged (per-axis maximum) instead of replaced.
nextSnapshotMerged(previous, current) ==
    [input    |-> MaxOf(previous.input, current.input),
     output   |-> MaxOf(previous.output, current.output),
     cache    |-> MaxOf(previous.cache, current.cache),
     thinking |-> MaxOf(previous.thinking, current.thinking),
     total    |-> MaxOf(previous.total, current.total)]

\* The snapshot stored for a key once a cumulative record has been handled.
nextSnapshot(previous, current) == current

\* A bug: the converted record keeps its mode.
convertedRecordKeepMode(record, delta) == [record EXCEPT !.tokens = delta]

\* { ...record, tokens: delta, mode: "delta" }
convertedRecord(record, delta) == [record EXCEPT !.tokens = delta, !.mode = "delta"]

\* One iteration of the loop over records; st holds the loop's locals.
adjustStep(st, record) ==
    IF record.mode # "cumulative"
    THEN [st EXCEPT !.adjusted = Append(@, record)]
    ELSE LET key == SourceDayModelKey(record.source, record.day, record.model)
             previous == IF key \in DOMAIN st.nextCumulative
                         THEN st.nextCumulative[key] ELSE emptyTotals
             current == normalizeTotals(record.tokens)
             raw == cumulativeDelta(current, previous)
             warn == hasReset(raw) /\ key \notin st.resetKeys
             delta == clampDelta(raw)
             stored == MapPut(st.nextCumulative, key, nextSnapshot(previous, current))
         IN  [nextCumulative |-> stored,
              adjusted |-> IF isZeroDelta(delta) THEN st.adjusted
                           ELSE Append(st.adjusted, convertedRecord(record, delta)),
              warnings |-> IF warn THEN Append(st.warnings, resetWarning(record.source))
                           ELSE st.warnings,
              resetKeys |-> IF hasReset(raw) THEN st.resetKeys \cup {key}
                            ELSE st.resetKeys]

RECURSIVE adjustLoop(_, _, _)
adjustLoop(st, records, i) ==
    IF i > Len(records) THEN st
    ELSE adjustLoop(adjustStep(st, records[i]), records, i + 1)

\* Returns [records, cumulative, warnings].
applyCumulativeAdjustments(records, cumulative) ==
    LET st == adjustLoop([nextCumulative |-> cumulative, adjusted |-> <<>>,
                          warnings |-> <<>>, resetKeys |-> {}], records, 1)
    IN  [records |-> st.adjusted, cumulative |-> st.nextCumulative,
         warnings |-> st.warnings]

(***************************************************************************)
(* The same two functions with object identity.  heap is the sequence of   *)
(* the RequiredTotals objects allocated so far; a Record<string,           *)
(* RequiredTotals> maps each key to the index of its object in heap, so    *)
(* that two records may share an object.  The spread { ...existing }       *)
(* copies the indices, not the objects.                                    *)
(***************************************************************************)
deref(heap, m) == [k \in DOMAIN m |-> heap[m[k]]]

\* One iteration of mergeAggregates' loop; st holds heap and the local next.
\* addTotals(entry, ...) writes into the object entry refers to.
mergeStepHeap(st, aggregate) ==
    LET key == DayModelKey(aggregate.day, aggregate.model)
        isNew == key \notin DOMAIN st.next
        allocated == IF isNew THEN Append(st.heap, emptyTotals) ELSE st.heap
        entry == IF isNew THEN Len(allocated) ELSE st.next[key]
    IN  [heap |-> [allocated EXCEPT ![entry] = addTotals(@, aggregate.tokens)],
         next |-> MapPut(st.next, key, entry)]

RECURSIVE mergeLoopHeap(_, _, _)
mergeLoopHeap(st, aggregates, i) ==
    IF i > Len(aggregates) THEN st
    ELSE mergeLoopHeap(mergeStepHeap(st, aggregates[i]), aggregates, i + 1)

\* Returns [heap, next]: the heap after the call and the returned record.
mergeAggregatesHeap(heap, existing, aggregates) ==
    mergeLoopHeap([heap |-> heap, next |-> existing], aggregates, 1)

\* One iteration of applyCumulativeAdjustments' loop.  current is a new
\* object (normalizeTotals returns a literal); no object of heap is written.
adjustStepHeap(st, record) ==
    IF record.mode # "cumulative"
    THEN [st EXCEPT !.adjusted = Append(@, record)]
    ELSE LET key == SourceDayModelKey(record.source, record.day, record.model)
             previous == IF key \in DOMAIN st.nextCumulative
                         THEN st.heap[st.nextCumulative[key]] ELSE emptyTotals
             current == normalizeTotals(record.tokens)
             raw == cumulativeDelta(current, previous)
             delta == clampDelta(raw)
             allocated == Append(st.heap, nextSnapshot(previous, current))
         IN  [heap |-> allocated,
              nextCumulative |-> MapPut(st.nextCumulative, key, Len(allocated)),
              adjusted |-> IF isZeroDelta(delta) THEN st.adjusted
                           ELSE Append(st.adjusted, convertedRecord(record, delta)),
              warnings |-> IF hasReset(raw) /\ key \notin st.resetKeys
                           THEN Append(st.warnings, resetWarning(record.source))
                           ELSE st.warnings,
              resetKeys |-> IF hasReset(raw) THEN st.resetKeys \cup {key}
                            ELSE st.resetKeys]

RECURSIVE adjustLoopHeap(_, _, _)
adjustLoopHeap(st, records, i) ==
    IF i > Len(records) THEN st
    ELSE adjustLoopHeap(adjustStepHeap(st, records[i]), records, i + 1)

\* Returns [heap, records, cumulative, warnings].
applyCumulativeAdjustmentsHeap(heap, records, cumulative) ==
    LET st == adjustLoopHeap([heap |-> heap, nextCumulative |-> cumulative,
                              adjusted |-> <<>>, warnings |-> <<>>,
                              resetKeys |-> {}], records, 1)
    IN  [heap |-> st.heap, records |-> st.adjusted,
         cumulative |-> st.nextCumulative, warnings |-> st.warnings]

(***************************************************************************)
(* usage-aggregate.ts.  A Map is the sequence of its entries in insertion  *)
(* order, each [key, value]; value is an AggregatedUsage.                  *)
(***************************************************************************)
zeroTokens == [input |-> 0, output |-> 0, cache |-> 0, thinking |-> 0, total |-> 0]

MapHas(map, key) == \E i \in DOMAIN map : map[i].key = key

MapIndex(map, key) == CHOOSE i \in DOMAIN map : map[i].key = key

\* map.get(key), or a fresh zero entry set under key when there is none.
MapGetOrCreate(map, key, day, model) ==
    IF MapHas(map, key) THEN map
    ELSE Append(map, [key |-> key,
                      value |-> [day |-> day, model |-> model, tokens |-> zeroTokens]])

\* A bug: the value replaces the running sum.
addTokenOverwrite(target, key, tokens) ==
    IF key \in DOMAIN tokens THEN [target EXCEPT ![key] = tokens[key]] ELSE target

\* target[key] += value, skipped when value is undefined.
addToken(target, key, tokens) ==
    IF key \in DOMAIN tokens THEN [target EXCEPT ![key] = @ + tokens[key]] ELSE target

addAllTokens(target, tokens) ==
    addToken(addToken(addToken(addToken(addToken(target,
        "input", tokens), "output", tokens), "cache", tokens),
        "thinking", tokens), "total", tokens)

\* A bug: a cumulative record is summed like a delta.
maxAllTokensSummed(target, tokens) == addAllTokens(target, tokens)

\* entry.tokens.x = Math.max(entry.tokens.x, record.tokens.x ?? 0), five times.
maxAllTokens(target, tokens) ==
    [input    |-> MaxOf(target.input, OrZero(tokens, "input")),
     output   |-> MaxOf(target.output, OrZero(tokens, "output")),
     cache    |-> MaxOf(target.cache, OrZero(tokens, "cache")),
     thinking |-> MaxOf(target.thinking, OrZero(tokens, "thinking")),
     total    |-> MaxOf(target.total, OrZero(tokens, "total"))]

\* The first loop: st = [byKey, cumulativeBySource].
aggregateRecord(st, record) ==
    IF record.mode = "cumulative"
    THEN LET cumulativeKey == DayModelSourceKey(record.day, record.model, record.source)
             map == MapGetOrCreate(st.cumulativeBySource, cumulativeKey,
                                   record.day, record.model)
             i == MapIndex(map, cumulativeKey)
         IN  [st EXCEPT !.cumulativeBySource =
                 [map EXCEPT ![i].value.tokens = maxAllTokens(@, record.tokens)]]
    ELSE LET key == DayModelKey(record.day, record.model)
             map == MapGetOrCreate(st.byKey, key, record.day, record.model)
             i == MapIndex(map, key)
         IN  [st EXCEPT !.byKey =
                 [map EXCEPT ![i].value.tokens = addAllTokens(@, record.tokens)]]

RECURSIVE aggregateRecords(_, _, _)
aggregateRecords(st, records, i) ==
    IF i > Len(records) THEN st
    ELSE aggregateRecords(aggregateRecord(st, records[i]), records, i + 1)

\* The second loop: each per-source maximum is added into its day::model entry.
RECURSIVE foldCumulative(_, _, _)
foldCumulative(byKey, cumulativeBySource, i) ==
    IF i > Len(cumulativeBySource) THEN byKey
    ELSE LET entry == cumulativeBySource[i].value
             key == DayModelKey(entry.day, entry.model)
             map == MapGetOrCreate(byKey, key, entry.day, entry.model)
             j == MapIndex(map, key)
         IN  foldCumulative(
                 [map EXCEPT ![j].value.tokens = addAllTokens(@, entry.tokens)],
                 cumulativeBySource, i + 1)

\* A bug: cache is always added to input.
inputTotalDoubleCount(tokens) == tokens.input + tokens.cache

\* Cache is a subset of input; if cache exceeds input, input is uncached.
inputTotal(tokens) ==
    IF tokens.cache > tokens.input THEN tokens.input + tokens.cache
    ELSE IF tokens.input > 0 THEN tokens.input
    ELSE tokens.cache

outputTotal(tokens) == tokens.output + tokens.thinking

fallbackSum(tokens) == tokens.input + tokens.output + tokens.cache + tokens.thinking

\* A bug: a source total, when there is one, is kept.
composeTotalTrusting(tokens) ==
    IF tokens.total # 0 THEN tokens.total
    ELSE inputTotal(tokens) + outputTotal(tokens)

\* The third loop's body: the total of one aggregated entry.
composeTotal(tokens) ==
    LET baseSum == inputTotal(tokens) + outputTotal(tokens)
    IN  IF baseSum > 0 THEN baseSum
        ELSE IF tokens.total = 0 /\ fallbackSum(tokens) > 0 THEN fallbackSum(tokens)
        ELSE tokens.total

\* The comparator of aggregated.sort.
compareEntries(a, b) ==
    IF a.day # b.day THEN localeCompareDay(a.day, b.day)
    ELSE localeCompareModel(a.model, b.model)

\* Array.prototype.sort is stable: x goes after every element not greater than it.
RECURSIVE insertSorted(_, _)
insertSorted(sorted, x) ==
    IF sorted = <<>> THEN <<x>>
    ELSE IF compareEntries(x, Head(sorted)) < 0 THEN <<x>> \o sorted
    ELSE <<Head(sorted)>> \o insertSorted(Tail(sorted), x)

RECURSIVE sortEntries(_, _, _)
sortEntries(sorted, entries, i) ==
    IF i > Len(entries) THEN sorted
    ELSE sortEntries(insertSorted(sorted, entries[i]), entries, i + 1)

aggregateUsage(records) ==
    LET st == aggregateRecords([byKey |-> <<>>, cumulativeBySource |-> <<>>], records, 1)
        byKey == foldCumulative(st.byKey, st.cumulativeBySource, 1)
        aggregated == [i \in DOMAIN byKey |->
                         [byKey[i].value EXCEPT !.tokens.total = composeTotal(byKey[i].value.tokens)]]
    IN  sortEntries(<<>>, aggregated, 1)

(***************************************************************************)
(* usage-parser.ts.  A line of a usage file is what JSON.parse and the     *)
(* field lookups make of it:                                               *)
(*   kind    "blank" (empty after trim), "invalid" (JSON.parse throws),    *)
(*           "scalar" (valid JSON, neither object nor array), "object"     *)
(*   model   the explicit model extractModel finds, <<>> when none         *)
(*   day     the day extractDay finds, "" when none                        *)
(*   tagged  type = "token_count" on the object or its payload             *)
(*   usage   "total" / "last" for a nested total_token_usage /             *)
(*           last_token_usage object, "none" otherwise                     *)
(*   fields  per axis, the raw JSON value of the first token field found   *)
(*   entries (only when present) the elements of the first array among     *)
(*           the object's values, or of the array itself (kind "array")    *)
(* A raw value is [t, v]: a JSON number v, a string that reads as the      *)
(* number v, or (t = "other") a value parseNumber rejects.                 *)
(***************************************************************************)
Num(v) == [t |-> "number", v |-> v]

Str(v) == [t |-> "string", v |-> v]

Other == [t |-> "other", v |-> 0]

\* The option type of parseNumber: <<n>> or <<>> for undefined.
parseNumber(value) ==
    IF value.t = "number" THEN <<value.v>>
    ELSE IF value.t = "string" THEN <<value.v>>
    ELSE <<>>

hasTokenFields(obj) == DOMAIN obj.fields # {}

isTokenEvent(obj) == obj.tagged \/ obj.usage # "none" \/ hasTokenFields(obj)

\* extractTokens: the axes whose field parses as a number; <<>> stands for null.
extractTokens(obj) ==
    LET found == {a \in DOMAIN obj.fields : parseNumber(obj.fields[a]) # <<>>}
        totals == [a \in found |-> parseNumber(obj.fields[a])[1]]
    IN  IF found = {} THEN <<>>
        ELSE <<[tokens |-> totals,
                mode |-> IF obj.usage = "total" THEN "cumulative" ELSE "delta"]>>

\* normalizeRecord: [record, warnings], record <<>> for null.
normalizeRecord(value, source) ==
    IF value.kind # "object" THEN [record |-> <<>>, warnings |-> <<>>]
    ELSE IF ~isTokenEvent(value) THEN [record |-> <<>>, warnings |-> <<>>]
    ELSE IF value.day = ""
    THEN [record |-> <<>>, warnings |-> <<"Skipping entry with missing day/timestamp.">>]
    ELSE With(extractTokens(value), LAMBDA tokenExtraction :
             IF tokenExtraction = <<>>
             THEN [record |-> <<>>,
                   warnings |-> <<"Skipping entry with missing token counts.">>]
             ELSE [record |-> <<[day |-> value.day,
                                 model |-> IF value.model = <<>> THEN <<"unknown">>
                                           ELSE value.model,
                                 tokens |-> tokenExtraction[1].tokens,
                                 source |-> source,
                                 mode |-> tokenExtraction[1].mode]>>,
                   warnings |-> IF tokenExtraction[1].mode = "cumulative"
                                THEN <<"Using total_token_usage; this may be cumulative for the session.">>
                                ELSE <<>>])

\* extractEntries: the array, the first array value of an object, else the
\* object itself; a scalar has no entries.
extractEntries(value) ==
    IF value.kind = "array" THEN value.entries
    ELSE IF value.kind = "object"
    THEN IF "entries" \in DOMAIN value THEN value.entries ELSE <<value>>
    ELSE <<>>

\* The loop of parseJsonValue over entries[i..].
RECURSIVE normalizeEntries(_, _, _)
normalizeEntries(entries, i, source) ==
    IF i > Len(entries) THEN [records |-> <<>>, warnings |-> <<>>]
    ELSE With(normalizeRecord(entries[i], source), LAMBDA r :
         With(normalizeEntries(entries, i + 1, source), LAMBDA rest :
             [records |-> r.record \o rest.records,
              warnings |-> r.warnings \o rest.warnings]))

parseJsonValue(value, source) ==
    With(extractEntries(value), LAMBDA entries :
        IF entries = <<>>
        THEN [records |-> <<>>, warnings |-> <<"No usage entries found in JSON.">>]
        ELSE normalizeEntries(entries, 1, source))

\* `Line ${lineNumber}: ${warning}`
lineWarnings(lineNumber, warnings) ==
    [i \in DOMAIN warnings |-> [line |-> lineNumber, msg |-> warnings[i]]]

\* A bug: the last line read by the previous scan is read again.
alreadyReadOffByOne(lineNumber, startLine) == lineNumber < startLine

\* Whether the loop skips the line as already consumed.
alreadyRead(lineNumber, startLine) == lineNumber <= startLine

\* The body of `for await (const line of rl)`; st = the function's locals.
readLine(st, line, filePath, startLine) ==
    LET lineNumber == st.lineNumber + 1
        counted == [st EXCEPT !.lineNumber = lineNumber]
    IN  IF alreadyRead(lineNumber, startLine) THEN counted
        ELSE IF line.kind = "blank" THEN [counted EXCEPT !.sawNewLines = TRUE]
        ELSE IF line.kind = "invalid"
        THEN [counted EXCEPT !.sawNewLines = TRUE,
                             !.warnings = Append(@, [line |-> lineNumber, msg |-> "Invalid JSON."])]
        ELSE LET isObj == line.kind = "object"
                 explicitModel == IF isObj THEN line.model ELSE <<>>
                 lastModel == IF explicitModel # <<>> THEN explicitModel ELSE st.lastModel
                 parsed == IF isObj /\ lastModel # <<>> /\ isTokenEvent(line)
                              /\ explicitModel = <<>>
                           THEN [line EXCEPT !.model = lastModel] ELSE line
             IN  With(parseJsonValue(parsed, filePath), LAMBDA result :
                     [counted EXCEPT !.sawNewLines = TRUE,
                                     !.lastModel = lastModel,
                                     !.records = @ \o result.records,
                                     !.warnings = @ \o lineWarnings(lineNumber, result.warnings)])

RECURSIVE readLines(_, _, _, _, _)
readLines(st, lines, i, filePath, startLine) ==
    IF i > Len(lines) THEN st
    ELSE readLines(readLine(st, lines[i], filePath, startLine), lines, i + 1,
                   filePath, startLine)

\* statSync: a file is [lines, mtimeMs]; every line ends in a newline.
LineBytes(line) ==
    IF line.kind = "blank" \/ "rest" \in DOMAIN line THEN 1
    ELSE IF "entries" \in DOMAIN line THEN 2 + 2 * Len(line.entries)
    ELSE 2

RECURSIVE FileSize(_)
FileSize(lines) == IF lines = <<>> THEN 0 ELSE LineBytes(Head(lines)) + FileSize(Tail(lines))

statSync(file) == [size |-> FileSize(file.lines), mtimeMs |-> file.mtimeMs]

\* A bug: a file is never taken as unchanged.
cursorUnchangedNever(cursor, stats) == FALSE

\* The skip test; cursor is <<>> when undefined.
cursorUnchanged(cursor, stats) ==
    cursor # <<>> /\ cursor.lastSize = stats.size /\ cursor.lastMtimeMs = stats.mtimeMs

\* A bug: every scan starts from the first line.
scanStartFromZero(cursor, stats) ==
    [startLine |-> 0,
     lastModel |-> IF cursor # <<>> /\ "lastModel" \in DOMAIN cursor
                   THEN cursor.lastModel ELSE <<>>,
     warnings |-> <<>>]

\* A bug: the model remembered before a truncation is kept.
scanStartKeepModel(cursor, stats) ==
    [startLine |-> IF cursor = <<>> \/ stats.size < cursor.lastSize THEN 0
                   ELSE cursor.lastLine,
     lastModel |-> IF cursor # <<>> /\ "lastModel" \in DOMAIN cursor
                   THEN cursor.lastModel ELSE <<>>,
     warnings |-> IF cursor # <<>> /\ stats.size < cursor.lastSize
                  THEN <<[line |-> 0, msg |-> "File size shrank; resetting cursor."]>>
                  ELSE <<>>]

\* Where a scan starts: startLine, the carried lastModel (<<>> for null) and
\* the warnings so far.
scanStart(cursor, stats) ==
    IF cursor # <<>> /\ stats.size < cursor.lastSize
    THEN [startLine |-> 0, lastModel |-> <<>>,
          warnings |-> <<[line |-> 0, msg |-> "File size shrank; resetting cursor."]>>]
    ELSE [startLine |-> IF cursor = <<>> THEN 0 ELSE cursor.lastLine,
          lastModel |-> IF cursor # <<>> /\ "lastModel" \in DOMAIN cursor
                        THEN cursor.lastModel ELSE <<>>,
          warnings |-> <<>>]

\* A bug: the cursor keeps no modification time.
nextCursorNoMtime(lineNumber, stats, lastModel) ==
    [lastLine |-> lineNumber, lastSize |-> stats.size, lastMtimeMs |-> 0]

\* The cursor a scan returns.
nextCursor(lineNumber, stats, lastModel) ==
    IF lastModel # <<>>
    THEN [lastLine |-> lineNumber, lastSize |-> stats.size,
          lastMtimeMs |-> stats.mtimeMs, lastModel |-> lastModel]
    ELSE [lastLine |-> lineNumber, lastSize |-> stats.size,
          lastMtimeMs |-> stats.mtimeMs]

\* Returns [records, warnings, cursor, opened]; opened tells whether the scan
\* went on to read the file's content.
parseJsonLinesFileWithCursor(filePath, file, cursor) ==
    With(statSync(file), LAMBDA stats :
        IF cursorUnchanged(cursor, stats)
        THEN [records |-> <<>>, warnings |-> <<>>, cursor |-> cursor, opened |-> FALSE]
        ELSE With(scanStart(cursor, stats), LAMBDA start :
             With(readLines([records |-> <<>>, warnings |-> start.warnings,
                             lastModel |-> start.lastModel, lineNumber |-> 0,
                             sawNewLines |-> FALSE],
                            file.lines, 1, filePath, start.startLine),
                  LAMBDA st :
                      [records |-> st.records,
                       warnings |-> IF st.records = <<>> /\ st.sawNewLines
                                    THEN Append(st.warnings,
                                                [line |-> 0, msg |-> "No token usage entries found in file."])
                                    ELSE st.warnings,
                       cursor |-> nextCursor(st.lineNumber, stats, st.lastModel),
                       opened |-> TRUE])))

\* parseJsonFile: JSON.parse of the whole content succeeds only when the file
\* holds one JSON document, here one valid line and otherwise blank lines.
parseJsonFile(filePath, file) ==
    With(SelectSeq(file.lines, LAMBDA l : l.kind # "blank"), LAMBDA docs :
        IF Len(docs) = 1 /\ docs[1].kind # "invalid"
        THEN With(parseJsonValue(docs[1], filePath), LAMBDA r :
                 [records |-> r.records,
                  warnings |-> [i \in DOMAIN r.warnings |-> [line |-> 0, msg |-> r.warnings[i]]]])
        ELSE [records |-> <<>>,
              warnings |-> <<[line |-> 0, msg |-> "Invalid JSON."],
                             [line |-> 0, msg |-> "Falling back to JSONL parsing."]>>])

\* A bug: a whole-file source is read line by line from the cursor's line.
parseJsonFileWithCursorByLine(filePath, file, cursor) ==
    parseJsonLinesFileWithCursor(filePath, file, cursor)

parseJsonFileWithCursor(filePath, file, cursor) ==
    With(statSync(file), LAMBDA stats :
        IF cursorUnchanged(cursor, stats)
        THEN [records |-> <<>>, warnings |-> <<>>, cursor |-> cursor, opened |-> FALSE]
        ELSE With(parseJsonFile(filePath, file), LAMBDA result :
                 IF result.records # <<>> \/ result.warnings = <<>>
                 THEN [records |-> result.records, warnings |-> result.warnings,
                       cursor |-> [lastLine |-> 1, lastSize |-> stats.size,
                                   lastMtimeMs |-> stats.mtimeMs],
                       opened |-> TRUE]
                 ELSE With(parseJsonLinesFileWithCursor(filePath, file, cursor),
                           LAMBDA jsonlResult :
                               [records |-> jsonlResult.records,
                                warnings |-> result.warnings \o jsonlResult.warnings,
                                cursor |-> jsonlResult.cursor,
                                opened |-> TRUE])))

\* extname(filePath).toLowerCase()
extname(filePath) == IF filePath \in {"a.jsonl", "b.jsonl"} THEN ".jsonl" ELSE ".json"

parseUsageFileWithCursor(filePath, file, cursor) ==
    IF extname(filePath) = ".jsonl"
    THEN parseJsonLinesFileWithCursor(filePath, file, cursor)
    ELSE parseJsonFileWithCursor(filePath, file, cursor)

\* `${source.path}: ${warning}`
pathWarnings(path, warnings) ==
    [i \in DOMAIN warnings |-> [path |-> path, line |-> warnings[i].line, msg |-> warnings[i].msg]]

\* The message of the Error statSync throws for a path that does not exist.
ENOENT == "ENOENT: no such file or directory"

\* A bug: the failure of a file is swallowed without a warning.
parseFailureSilent(st, source, message) == [st EXCEPT !.seen = @ \cup {source.path}]

\* The catch of the loop body: `${source.path}: ${error.message}`.
parseFailure(st, source, message) ==
    [st EXCEPT !.seen = @ \cup {source.path},
               !.warnings = Append(@, [path |-> source.path, line |-> 0, msg |-> message])]

\* A bug: a path named twice is parsed twice.
skipSourceKindOnly(st, source) == source.kind # "file"

\* The two `continue` tests at the head of the loop body.
skipSource(st, source) == source.kind # "file" \/ source.path \in st.seen

\* The loop body of parseUsageSources; fs maps each readable path to its file,
\* and statSync throws for a path that is not in fs.
parseSource(st, source, cursors, fs) ==
    IF skipSource(st, source) THEN st
    ELSE IF source.path \notin DOMAIN fs
    THEN parseFailure(st, source, ENOENT)
    ELSE With(parseUsageFileWithCursor(source.path, fs[source.path],
                  IF source.path \in DOMAIN cursors THEN cursors[source.path] ELSE <<>>),
              LAMBDA result :
                  [seen |-> st.seen \cup {source.path},
                   records |-> st.records \o result.records,
                   warnings |-> st.warnings \o pathWarnings(source.path, result.warnings),
                   nextCursors |-> IF result.cursor # <<>>
                                   THEN MapPut(st.nextCursors, source.path, result.cursor)
                                   ELSE st.nextCursors])

RECURSIVE parseSources(_, _, _, _, _)
parseSources(st, sources, i, cursors, fs) ==
    IF i > Len(sources) THEN st
    ELSE parseSources(parseSource(st, sources[i], cursors, fs), sources, i + 1, cursors, fs)

\* Returns [records, warnings, cursors].
parseUsageSources(sources, cursors, fs) ==
    With(parseSources([seen |-> {}, records |-> <<>>, warnings |-> <<>>,
                       nextCursors |-> cursors], sources, 1, cursors, fs),
         LAMBDA st :
             [records |-> st.records,
              warnings |-> IF \E i \in DOMAIN st.records : st.records[i].model = <<"unknown">>
                           THEN Append(st.warnings,
                                       [path |-> "", line |-> 0,
                                        msg |-> "Some entries are missing model info; recorded as 'unknown'."])
                           ELSE st.warnings,
              cursors |-> st.nextCursors])

(***************************************************************************)
(* payload.ts, buildSyncPayload.  Object.entries(dailyTotals) is the       *)
(* sequence of the ledger's keys in the object's iteration order.  The     *)
(* payload's generatedAt, deviceId and deviceName are copied from the      *)
(* options and are left out.                                               *)
(***************************************************************************)
\* key.split("::"): the pieces of the key between separators.
RECURSIVE splitKey(_, _, _)
splitKey(key, i, parts) ==
    IF i > Len(key) THEN parts
    ELSE IF key[i] = SEP THEN splitKey(key, i + 1, Append(parts, <<>>))
    ELSE splitKey(key, i + 1, [parts EXCEPT ![Len(parts)] = Append(@, key[i])])

\* const [day, model] = key.split("::"); every ledger key holds a day and "::".
payloadEntry(key, tokens) ==
    With(splitKey(key, 1, << <<>> >>), LAMBDA parts :
        [day |-> parts[1][1], model |-> parts[2], tokens |-> tokens])

\* A bug: entries of one day are left in the order they came.
compareTotalsDayOnly(a, b) == localeCompareDay(a.day, b.day)

\* The comparator of totals.sort.
compareTotals(a, b) ==
    IF a.day # b.day THEN localeCompareDay(a.day, b.day)
    ELSE localeCompareModel(a.model, b.model)

RECURSIVE insertTotal(_, _)
insertTotal(sorted, x) ==
    IF sorted = <<>> THEN <<x>>
    ELSE IF compareTotals(x, Head(sorted)) < 0 THEN <<x>> \o sorted
    ELSE <<Head(sorted)>> \o insertTotal(Tail(sorted), x)

RECURSIVE sortTotals(_, _, _)
sortTotals(sorted, entries, i) ==
    IF i > Len(entries) THEN sorted
    ELSE sortTotals(insertTotal(sorted, entries[i]), entries, i + 1)

\* keyOrder: the keys of dailyTotals in iteration order.
buildSyncPayload(dailyTotals, keyOrder) ==
    [version |-> 1,
     totals |-> sortTotals(<<>>,
                    [i \in DOMAIN keyOrder |->
                        payloadEntry(keyOrder[i], dailyTotals[keyOrder[i]])], 1)]

(***************************************************************************)
(* sync.ts, runSyncOnce: the state a run that reaches parsing persists.    *)
(* Every exit after parsing writes the same fileCursors, dailyTotals and   *)
(* cumulativeTotals, whatever the upload does.                             *)
(***************************************************************************)
DEFAULT_STATE == [fileCursors |-> EmptyMap, dailyTotals |-> EmptyMap,
                  cumulativeTotals |-> EmptyMap]

\* Lines 225-238: parse, reconcile, aggregate, merge.
syncPipeline(state, sources, fs) ==
    With(parseUsageSources(sources, state.fileCursors, fs), LAMBDA parsed :
    With(applyCumulativeAdjustments(parsed.records, state.cumulativeTotals), LAMBDA adjusted :
    With(aggregateUsage(adjusted.records), LAMBDA aggregatedDelta :
        [parsed |-> parsed, adjusted |-> adjusted, aggregatedDelta |-> aggregatedDelta,
         nextDailyTotals |-> mergeAggregates(state.dailyTotals, aggregatedDelta)])))

\* The state handed to writeSyncState at lines 386-402 and 464-480.
nextSyncState(state, run) ==
    [fileCursors |-> run.parsed.cursors,
     dailyTotals |-> run.nextDailyTotals,
     cumulativeTotals |-> run.adjusted.cumulative]

(***************************************************************************)
(* scheduler.ts.  Time values are whole minutes.  A timestamp string is    *)
(* undefined (NoString), empty, text that Date.parse rejects, or an ISO    *)
(* date naming the time value t.  A Date holds a time value or is invalid: *)
(* new Date(v) is invalid once v leaves the range of time values, which    *)
(* MAX_TIME_VALUE (8.64e15 ms in JavaScript) stands for.                   *)
(***************************************************************************)
MINUTE == 1

SYNC_INTERVAL_MS == 15 * MINUTE

DEFAULT_JITTER_MS == 2 * MINUTE

MAX_TIME_VALUE == 100

NaN == -1000000

NoString == [kind |-> "undefined", t |-> 0]

EmptyString == [kind |-> "empty", t |-> 0]

NotADate == [kind |-> "text", t |-> 0]

IsoString(t) == [kind |-> "iso", t |-> t]

\* Date.parse: NaN for text that is no date and for a date out of range.
DateParse(s) ==
    IF s.kind = "iso" /\ s.t >= 0 - MAX_TIME_VALUE /\ s.t <= MAX_TIME_VALUE THEN s.t ELSE NaN

\* new Date(v).getTime(): TimeClip.
TimeClip(v) ==
    IF v = NaN \/ v > MAX_TIME_VALUE \/ v < 0 - MAX_TIME_VALUE THEN NaN ELSE v

\* Date.prototype.toISOString: throws a RangeError on an invalid Date.
toISOString(time) ==
    IF time = NaN THEN [threw |-> TRUE, value |-> NoString]
    ELSE [threw |-> FALSE, value |-> IsoString(time)]

\* !lastSuccessAt
Falsy(s) == s.kind \in {"undefined", "empty"}

\* Returns [isNull, time]: null, or the time value of the Date returned.
getNextAllowedAt(lastSuccessAt) ==
    IF Falsy(lastSuccessAt) THEN [isNull |-> TRUE, time |-> NaN]
    ELSE IF DateParse(lastSuccessAt) = NaN THEN [isNull |-> TRUE, time |-> NaN]
    ELSE [isNull |-> FALSE, time |-> TimeClip(DateParse(lastSuccessAt) + SYNC_INTERVAL_MS)]

\* A comparison with NaN is false.
LessThan(a, b) == a # NaN /\ b # NaN /\ a < b

\* Returns [threw, limited, nextAllowedAt]; nextAllowedAt is NoString when
\* the property is absent.
getRateLimitStatus(lastSuccessAt, nowMs) ==
    LET nextAllowedAt == getNextAllowedAt(lastSuccessAt)
    IN  IF nextAllowedAt.isNull
        THEN [threw |-> FALSE, limited |-> FALSE, nextAllowedAt |-> NoString]
        ELSE [threw |-> toISOString(nextAllowedAt.time).threw,
              limited |-> LessThan(nowMs, nextAllowedAt.time),
              nextAllowedAt |-> toISOString(nextAllowedAt.time).value]

(***************************************************************************)
(* queue.ts.  queue.json holds a sequence of items; the random id of an    *)
(* item is left out, an item is told by its createdAt and payload.         *)
(***************************************************************************)
MAX_QUEUE_SIZE == 20

\* A bug: the oldest items are kept.
sliceFirst(items, n) == IF Len(items) <= n THEN items ELSE SubSeq(items, 1, n)

\* items.slice(-n)
sliceLast(items, n) ==
    IF Len(items) <= n THEN items ELSE SubSeq(items, Len(items) - n + 1, Len(items))

\* The content of queue.json after writeQueue(items).
writeQueue(items) == sliceLast(items, MAX_QUEUE_SIZE)

readQueue(file) == file

\* Returns the file written and the queue returned (which is not trimmed).
enqueuePayload(file, payload, reason, nowIso) ==
    LET queue == Append(readQueue(file),
                        [createdAt |-> nowIso, payload |-> payload, attempts |-> 0,
                         lastError |-> reason, lastAttemptAt |-> 0])
    IN  [file |-> writeQueue(queue), queue |-> queue]

updateQueue(items) == writeQueue(items)

(***************************************************************************)
(* state.ts and runSyncOnce as a whole.  state.json is absent, holds text  *)
(* that is not JSON, or holds a sync state: the three maps (state) and the *)
(* description of the last run (meta; "", 0 and NoString stand for an      *)
(* absent field).                                                          *)
(***************************************************************************)
NoMeta == [lastRunAt |-> 0, lastSuccessAt |-> NoString, lastStatus |-> "", lastError |-> "",
           lastErrorContext |-> "", lastNote |-> ""]

AbsentFile == [kind |-> "absent", state |-> DEFAULT_STATE, meta |-> NoMeta]

CorruptFile == [kind |-> "corrupt", state |-> DEFAULT_STATE, meta |-> NoMeta]

\* Returns [threw, message, state, meta].
readSyncState(disk) ==
    IF disk.kind = "absent"
    THEN [threw |-> FALSE, message |-> "", state |-> DEFAULT_STATE, meta |-> NoMeta]
    ELSE IF disk.kind = "corrupt"
    THEN [threw |-> TRUE, message |-> "Invalid sync state JSON.",
          state |-> DEFAULT_STATE, meta |-> NoMeta]
    ELSE [threw |-> FALSE, message |-> "", state |-> disk.state, meta |-> disk.meta]

writeSyncState(next) == [kind |-> "json", state |-> next.state, meta |-> next.meta]

\* readConfig: throws when config.json is not JSON.
readConfig(config) ==
    [threw |-> ~config.readable, message |-> "Invalid config JSON.",
     usagePath |-> config.usagePath, apiBaseUrl |-> config.apiBaseUrl,
     localOnly |-> config.localOnly]

\* discoverUsageSources for a usagePath that names a file.
discoverUsageSources(usagePath, fs) ==
    IF usagePath \in DOMAIN fs THEN <<[path |-> usagePath, kind |-> "file"]>> ELSE <<>>

\* The result of a run that failed before the pipeline (lines 153-162).
errorResult(message) == [status |-> "error", message |-> message, recordsParsed |-> 0]

\* A bug: the maps are not carried over into the state written.
configErrorStateReset(syncState, message, nowIso) ==
    [state |-> DEFAULT_STATE,
     meta |-> [syncState.meta EXCEPT !.lastRunAt = nowIso, !.lastStatus = "error",
                                     !.lastError = message,
                                     !.lastErrorContext = "SYNC_CONFIG_READ_FAILED"]]

\* Lines 175-181: { ...syncState, lastRunAt, lastStatus, lastError, lastErrorContext }.
configErrorState(syncState, message, nowIso) ==
    [state |-> syncState.state,
     meta |-> [syncState.meta EXCEPT !.lastRunAt = nowIso, !.lastStatus = "error",
                                     !.lastError = message,
                                     !.lastErrorContext = "SYNC_CONFIG_READ_FAILED"]]

\* Lines 204-212.
notFoundState(syncState, nowIso) ==
    [state |-> syncState.state,
     meta |-> [syncState.meta EXCEPT !.lastRunAt = nowIso, !.lastStatus = "error",
                                     !.lastError = "No usage files found.",
                                     !.lastErrorContext = "SYNC_USAGE_NOT_FOUND"]]

\* The answers of the API to the successive calls of postSyncPayloadWithRetry
\* of one run: the first net.okCount calls succeed and the next one fails with
\* net.failStatus (0: no HTTP status).
OkResponse == [ok |-> TRUE, status |-> 200, error |-> ""]

apiResponse(net, n) ==
    IF n <= net.okCount THEN OkResponse
    ELSE [ok |-> FALSE, status |-> net.failStatus, error |-> "Request failed."]

AuthRejected(response) == response.status = 401 \/ response.status = 403

\* Lines 323-367, the loop over the queue; st holds posts, remaining,
\* flushedCount and the response that failed, if one did.
RECURSIVE flushQueue(_, _, _, _, _)
flushQueue(st, queue, i, net, nowIso) ==
    IF i > Len(queue) THEN st
    ELSE LET item == queue[i]
             response == apiResponse(net, Len(st.posts) + 1)
             posted == Append(st.posts, [kind |-> "queued", payload |-> item.payload])
         IN  IF ~response.ok
             THEN [st EXCEPT !.posts = posted,
                             !.remaining = Append(@, [item EXCEPT !.attempts = @ + 1,
                                                                  !.lastAttemptAt = nowIso,
                                                                  !.lastError = response.error]),
                             !.failed = TRUE,
                             !.response = response]
             ELSE flushQueue([st EXCEPT !.posts = posted, !.flushedCount = @ + 1],
                             queue, i + 1, net, nowIso)

\* Lines 369-375: what the flush leaves in queue.json.
queueAfterFlush(file, queue, remaining) ==
    IF Len(remaining) > 0 THEN updateQueue(remaining)
    ELSE IF Len(queue) > 0 THEN updateQueue(<<>>)
    ELSE file

\* A bug: the rate limit is not consulted.
rateLimitedNever(rateLimit, options) == FALSE

\* Line 314: rateLimit.limited && !options.force
rateLimited(rateLimit, options) == rateLimit.limited /\ ~options.force

\* A bug: the token is not looked at.
skipNoteWithoutAuth(localOnly, cfg, auth, rateLimit, options) ==
    IF localOnly THEN "Local-only mode enabled. No upload attempted."
    ELSE IF ~cfg.apiBaseUrl THEN "API base URL not configured."
    ELSE IF rateLimited(rateLimit, options) THEN "Rate limited."
    ELSE ""

\* Lines 299-318: why the run does not upload, or "" if it does.
skipNote(localOnly, cfg, auth, rateLimit, options) ==
    IF localOnly THEN "Local-only mode enabled. No upload attempted."
    ELSE IF ~cfg.apiBaseUrl THEN "API base URL not configured."
    ELSE IF auth # "valid" THEN "Auth token missing or invalid."
    ELSE IF rateLimited(rateLimit, options) THEN "Rate limited."
    ELSE ""

\* What lines 270-462 decide: the outcome recorded for the run, queue.json
\* after it and the requests made, in order.
RunOutcome(lastStatus, lastSuccessAt, lastError, lastErrorContext, lastNote, queue, posts) ==
    [lastStatus |-> lastStatus, lastSuccessAt |-> lastSuccessAt, lastError |-> lastError,
     lastErrorContext |-> lastErrorContext, lastNote |-> lastNote,
     queue |-> queue, posts |-> posts]

\* Lines 405-455: the latest payload is posted.
postLatest(syncState, file, posts, payload, net, nowIso) ==
    LET response == apiResponse(net, Len(posts) + 1)
        posted == Append(posts, [kind |-> "latest", payload |-> payload])
        rejected == "Auth rejected by API. Run brag login."
    IN  IF ~response.ok
        THEN RunOutcome("error", syncState.meta.lastSuccessAt,
                        IF AuthRejected(response) THEN rejected ELSE response.error,
                        "SYNC_API_ERROR",
                        IF AuthRejected(response) THEN rejected ELSE "",
                        enqueuePayload(file, payload,
                            IF AuthRejected(response) THEN rejected ELSE response.error,
                            nowIso).file,
                        posted)
        ELSE RunOutcome("success", toISOString(nowIso).value, "",
                        syncState.meta.lastErrorContext, "", file, posted)

\* A bug: the latest payload is posted whether or not the queue was flushed.
flushAndPostRegardless(syncState, file, payload, net, nowIso) ==
    With(flushQueue([posts |-> <<>>, remaining |-> <<>>, flushedCount |-> 0,
                     failed |-> FALSE, response |-> OkResponse],
                    readQueue(file), 1, net, nowIso),
         LAMBDA flush :
         postLatest(syncState, queueAfterFlush(file, readQueue(file), flush.remaining),
                    flush.posts, payload, net, nowIso))

\* Lines 319-455: the run uploads.
flushAndPost(syncState, file, payload, net, nowIso) ==
    With(flushQueue([posts |-> <<>>, remaining |-> <<>>, flushedCount |-> 0,
                     failed |-> FALSE, response |-> OkResponse],
                    readQueue(file), 1, net, nowIso),
         LAMBDA flush :
    With(queueAfterFlush(file, readQueue(file), flush.remaining), LAMBDA flushed :
    With(IF AuthRejected(flush.response) THEN "Auth rejected by API. Run brag login." ELSE "",
         LAMBDA rejected :
         IF flush.failed
         THEN RunOutcome("error", syncState.meta.lastSuccessAt,
                         IF rejected # "" THEN rejected ELSE flush.response.error,
                         "SYNC_QUEUE_FLUSH_FAILED", rejected, flushed, flush.posts)
         ELSE postLatest(syncState, flushed, flush.posts, payload, net, nowIso))))

\* Lines 126-133.  raw.trim().toLowerCase() on the values the variable is
\* given here; "" is the variable unset or empty.
trimLowerCase(raw) ==
    IF raw = " TRUE " THEN "true"
    ELSE IF raw = "Yes" THEN "yes"
    ELSE raw

isEnvLocalOnly(raw) ==
    IF raw = "" THEN FALSE
    ELSE trimLowerCase(raw) \in {"1", "true", "yes"}

\* Line 263.
localOnlyMode(options, cfg, raw) ==
    options.localOnly \/ cfg.localOnly = TRUE \/ isEnvLocalOnly(raw)

\* Lines 270-462.
upload(syncState, file, cfg, localOnly, auth, rateLimit, options, payload, net, nowIso) ==
    With(skipNote(localOnly, cfg, auth, rateLimit, options),
         LAMBDA note :
         IF note # ""
         THEN RunOutcome("skipped", syncState.meta.lastSuccessAt, "",
                         syncState.meta.lastErrorContext, note, file, <<>>)
         ELSE flushAndPost(syncState, file, payload, net, nowIso))

\* A bug: a run that does not upload keeps the ledger it read.
finalStateKeepsLedger(syncState, run, outcome, nowIso) ==
    [state |-> IF outcome.lastStatus = "skipped"
               THEN [nextSyncState(syncState.state, run)
                        EXCEPT !.dailyTotals = syncState.state.dailyTotals]
               ELSE nextSyncState(syncState.state, run),
     meta |-> [lastRunAt |-> nowIso, lastSuccessAt |-> outcome.lastSuccessAt,
               lastStatus |-> outcome.lastStatus, lastError |-> outcome.lastError,
               lastErrorContext |-> outcome.lastErrorContext,
               lastNote |-> outcome.lastNote]]

\* The state handed to writeSyncState at lines 386-402 and 464-480.
finalState(syncState, run, outcome, nowIso) ==
    [state |-> nextSyncState(syncState.state, run),
     meta |-> [lastRunAt |-> nowIso, lastSuccessAt |-> outcome.lastSuccessAt,
               lastStatus |-> outcome.lastStatus, lastError |-> outcome.lastError,
               lastErrorContext |-> outcome.lastErrorContext,
               lastNote |-> outcome.lastNote]]

\* A run that stopped before the upload decision: no request, queue.json as
\* it was.
earlyReturn(result, disk, file, discovered, writes) ==
    [result |-> result, disk |-> disk, queue |-> file, posts |-> <<>>,
     discovered |-> discovered, parsed |-> FALSE, writes |-> writes]

\* One run.  env holds what the run finds around it: the options of the
\* command line, the state of the auth token and the answers of the API.
\* Returns the result, state.json and queue.json after the run, the requests
\* made in order, which steps the run reached and how often it wrote
\* state.json.  A run whose getRateLimitStatus throws rejects ("threw").
runSyncOnce(disk, file, config, fs, nowIso, env) ==
    With(readSyncState(disk), LAMBDA syncState :
    IF syncState.threw
    THEN earlyReturn(errorResult(syncState.message), disk, file, FALSE, 0)
    ELSE With(readConfig(config), LAMBDA cfg :
    IF cfg.threw
    THEN earlyReturn(errorResult(cfg.message),
                     writeSyncState(configErrorState(syncState, cfg.message, nowIso)),
                     file, FALSE, 1)
    ELSE With(discoverUsageSources(cfg.usagePath, fs), LAMBDA sources :
    IF Len(sources) = 0
    THEN earlyReturn(errorResult("No usage files found."),
                     writeSyncState(notFoundState(syncState, nowIso)), file, TRUE, 1)
    ELSE With(syncPipeline(syncState.state, sources, fs), LAMBDA run :
         With(getRateLimitStatus(syncState.meta.lastSuccessAt, nowIso), LAMBDA rateLimit :
         IF rateLimit.threw
         THEN [earlyReturn([status |-> "threw", message |-> "Invalid time value",
                            recordsParsed |-> 0], disk, file, TRUE, 0)
                  EXCEPT !.parsed = TRUE]
         ELSE With(upload(syncState, file, cfg,
                          localOnlyMode(env.options, cfg, env.BRAG_LOCAL_ONLY),
                          env.auth, rateLimit, env.options,
                          [generatedAt |-> nowIso, dailyTotals |-> run.nextDailyTotals],
                          env.net, nowIso),
              LAMBDA outcome :
                  [result |-> [status |-> outcome.lastStatus,
                               message |-> IF outcome.lastStatus = "error"
                                           THEN outcome.lastError ELSE outcome.lastNote,
                               recordsParsed |-> Len(run.parsed.records)],
                   disk |-> writeSyncState(finalState(syncState, run, outcome, nowIso)),
                   queue |-> outcome.queue,
                   posts |-> outcome.posts,
                   discovered |-> TRUE, parsed |-> TRUE, writes |-> 1]))))))

\* A run of `brag sync --local-only`.
LocalOnlyEnv ==
    [options |-> [force |-> FALSE, localOnly |-> TRUE], auth |-> "missing",
     BRAG_LOCAL_ONLY |-> "", net |-> [okCount |-> 0, failStatus |-> 0]]

(***************************************************************************)
(* api.ts: postSyncPayloadWithRetry.  Times are in milliseconds.  A         *)
(* response is [ok, status, error]; status 0 stands for a response without  *)
(* an HTTP status (network error, timeout).                                 *)
(***************************************************************************)
DEFAULT_RETRY_ATTEMPTS == 3

DEFAULT_RETRY_BASE_DELAY_MS == 1000

DEFAULT_RETRY_MAX_DELAY_MS == 8000

JITTER_RANGE_MS == 250

MathMin(a, b) == IF a <= b THEN a ELSE b

\* postSyncPayload, lines 107-180: what one request can come back with.
\* HTTP 200 with an error in the body is not ok (lines 149-156).
postSyncPayloadResults ==
    {[ok |-> TRUE, status |-> 200, error |-> ""]}
    \cup {[ok |-> FALSE, status |-> s, error |-> "Request failed."] :
            s \in {0, 200, 400, 401, 408, 429, 500, 503}}

\* A bug: every failure is retried.
isRetryableStatusAlways(status) == TRUE

isRetryableStatus(status) ==
    IF status = 0 THEN TRUE
    ELSE IF status = 408 \/ status = 429 THEN TRUE
    ELSE status >= 500

\* Line 230.
retryDelay(attempt, baseDelayMs, maxDelayMs) ==
    MathMin(maxDelayMs, baseDelayMs * 2^(attempt - 1))

\* Math.floor(Math.random() * 250): the least, a middle and the greatest.
Jitters == {0, 125, JITTER_RANGE_MS - 1}

NoResponse == [ok |-> FALSE, status |-> 0, error |-> ""]

\* Lines 235-241, the return after the loop.
retriesExhausted(hasLast, lastResponse, attempt) ==
    [ok |-> FALSE, status |-> IF hasLast THEN lastResponse.status ELSE 0,
     error |-> IF hasLast THEN lastResponse.error ELSE "Request failed after retries.",
     attempts |-> attempt]

\* Line 219: response.attempts = attempt.
withAttempts(response, attempt) ==
    [ok |-> response.ok, status |-> response.status, error |-> response.error,
     attempts |-> attempt]

(***************************************************************************)
(* scheduler.ts computeNextRun and the loop of runWatch (sync.ts).          *)
(***************************************************************************)
\* Math.floor(Math.random() * jitterMs)
jitterValues(jitterMs) == 0..(jitterMs - 1)

\* Returns [threw, delayMs, nextRunAt].
computeNextRun(baseIso, nowMs, jitter) ==
    LET base == IF Falsy(baseIso) THEN nowMs ELSE DateParse(baseIso)
        baseTime == IF base = NaN THEN nowMs ELSE base
        target == baseTime + SYNC_INTERVAL_MS + jitter
        nextRunAt == toISOString(TimeClip(target))
    IN  [threw |-> nextRunAt.threw, delayMs |-> Max0(target - nowMs),
         nextRunAt |-> nextRunAt.value]

\* sync.ts:503-509: syncState.lastSuccessAt ?? syncState.lastRunAt ?? now; a
\* state without a recorded run has no lastRunAt.
watchBase(disk, nowMs) ==
    IF readSyncState(disk).threw THEN IsoString(nowMs)
    ELSE IF readSyncState(disk).meta.lastSuccessAt.kind # "undefined"
    THEN readSyncState(disk).meta.lastSuccessAt
    ELSE IF readSyncState(disk).meta.lastStatus # ""
    THEN IsoString(readSyncState(disk).meta.lastRunAt)
    ELSE IsoString(nowMs)

(***************************************************************************)
(* oauth.ts: pollDeviceToken.  Times are in seconds.  An answer of the      *)
(* token endpoint is [ok, token, code]: HTTP ok or not, whether the body    *)
(* carries access_token, and the error code of the body ("" if none).       *)
(***************************************************************************)
SLOW_DOWN_STEP == 5

TokenAnswers ==
    {[ok |-> TRUE, token |-> TRUE, code |-> ""],
     [ok |-> TRUE, token |-> FALSE, code |-> ""]}
    \cup {[ok |-> FALSE, token |-> FALSE, code |-> c] :
            c \in {"", "authorization_pending", "slow_down", "access_denied",
                   "expired_token", "invalid_client"}}

NoAnswer == [ok |-> FALSE, token |-> FALSE, code |-> ""]

NoPoll == [kind |-> "none", message |-> ""]

returned(message) == [kind |-> "returned", message |-> message]

threw(message) == [kind |-> "threw", message |-> message]

\* A bug: a request is still made at the deadline.
beforeDeadlineInclusive(now, expiresAt) == now <= expiresAt

\* Line 197: Date.now() < expiresAt
beforeDeadline(now, expiresAt) == now < expiresAt

\* Lines 223-251: what the call does with an answer: it returns, throws,
\* or sleeps ("") for the interval, raised on slow_down.
pollOutcome(answer, interval) ==
    IF answer.ok
    THEN [result |-> IF answer.token THEN returned("token")
                     ELSE threw("OAuth token response missing access_token."),
          interval |-> interval]
    ELSE IF answer.code = ""
    THEN [result |-> threw("OAuth token request failed with HTTP status."),
          interval |-> interval]
    ELSE IF answer.code = "authorization_pending"
    THEN [result |-> NoPoll, interval |-> interval]
    ELSE IF answer.code = "slow_down"
    THEN [result |-> NoPoll, interval |-> interval + SLOW_DOWN_STEP]
    ELSE IF answer.code = "access_denied"
    THEN [result |-> threw("OAuth authorization was denied."), interval |-> interval]
    ELSE IF answer.code = "expired_token"
    THEN [result |-> threw("OAuth device code expired. Run login again."),
          interval |-> interval]
    ELSE [result |-> threw(answer.code), interval |-> interval]

(***************************************************************************)
(* State.                                                                  *)
(*   aggRecords, aggResult, aggDone     a call of aggregateUsage           *)
(*   recCum, recIn, recOut, recDone     successive calls of                *)
(*                                      applyCumulativeAdjustments, each   *)
(*                                      on the map the previous returned   *)
(*   files, syncState                   the usage files and state.json     *)
(*   emitted, synced                    history of the sync runs           *)
(*   payOrder, payTotals, payDone       a call of buildSyncPayload         *)
(*   scanPath, scanFile, scanCursor,    one usage file, its stored cursor  *)
(*   scanOut, scanDone                  and the result of a scan of it     *)
(*   memHeap, memState                  the RequiredTotals objects and the *)
(*                                      sync state whose records refer to  *)
(*                                      them                               *)
(*   memBefore, memCall, memOut,        the values before a run of the     *)
(*   memDone, memRuns                   pipeline, what it was given and    *)
(*                                      what it returned                   *)
(*   runDisk, runConfig, runFiles       state.json, config.json and the    *)
(*                                      usage files                        *)
(*   runClock, runLast                  the number of runs of runSyncOnce  *)
(*                                      and what the last one was given    *)
(*                                      and returned                       *)
(*   srcFiles, srcCursors, srcOut,      several usage files, their stored  *)
(*   srcDone                            cursors and the result of a call   *)
(*                                      of parseUsageSources on them       *)
(*   rateLast, rateNow, rateOut,        a call of getRateLimitStatus       *)
(*   rateDone                                                              *)
(*   upDisk, upQueue, upFiles, upNow    state.json, queue.json, the usage  *)
(*                                      file and the clock                 *)
(*   upRuns, upForced, upLast           the runs so far, whether one was   *)
(*                                      forced, and what the last one was  *)
(*                                      given and returned                 *)
(*   qFile, qOffered, qCount, qUpdates   queue.json under enqueuePayload    *)
(*                                       and updateQueue                    *)
(*   rtMax, rtAttempt, rtRequests,      a call of postSyncPayloadWithRetry: *)
(*   rtHasLast, rtLast, rtWait, rtPc,   maxAttempts, its locals, the        *)
(*   rtResult                           requests made, the last wait, where *)
(*                                      it is and what it returned          *)
(*   wtDisk, wtQueue, wtNow, wtPc,      brag sync --watch: the files, the   *)
(*   wtRuns, wtPrevStart, wtLastStart,  clock, where the loop is, the runs  *)
(*   wtLastStatus, wtDelay              made, when the last two started,    *)
(*                                      how the last ended, the last wait   *)
(*   prPc, prEnv, prStart, prSnap,      invocations of runSyncOnce step by  *)
(*   prRun, prPlan, prSent, prPending,  step: where each is, what it found, *)
(*   prReads, prWrites                  read, parsed, decided, posted, is   *)
(*                                      about to write, and how often it    *)
(*                                      read and wrote state.json           *)
(*   prDisk, prQueue, prFiles,          state.json, queue.json, the usage   *)
(*   prClock, prWriters                 file, the clock and the invocations *)
(*                                      that wrote state.json, in order     *)
(*   plDevice, plNow, plExpiresAt,      a call of pollDeviceToken: the      *)
(*   plInterval, plPc, plLast,          device code, the clock, the locals, *)
(*   plPolledAt, plSlowDowns, plWait,   the last answer, when the last      *)
(*   plResult                           request was made, the slow_down     *)
(*                                      answers so far, the last wait, and  *)
(*                                      what the call returned or threw     *)
(*   gtIn, gtOut, gtDone                what one run finds (flags, config,  *)
(*                                      environment, token, files) and what *)
(*                                      it returns                          *)
(*   spRecords, spBase, spAt, spRuns,   delta records, the ledger before    *)
(*   spLedger, spWhole, spWholeDone     them, how many of them the runs so  *)
(*                                      far took, the ledger of these runs  *)
(*                                      and the ledger of one run over all  *)
(*   tlSnaps, tlBase, tlAt, tlBatches,  cumulative snapshots of one key,    *)
(*   tlCum, tlSum                       the baseline before them, how many  *)
(*                                      were taken in how many batches, the *)
(*                                      baselines now and the sum of the    *)
(*                                      deltas emitted                      *)
(*   lsFiles, lsCursors, lsList,        usage files, their stored cursors,  *)
(*   lsOut, lsDone                      the source list a call of           *)
(*                                      parseUsageSources was given and     *)
(*                                      what it returned                    *)
(*   ptIndex, ptSeenPartial, ptCount    the number of the line the producer *)
(*                                      wrote in two parts, whether a scan  *)
(*                                      read its first part, and how many   *)
(*                                      times scans returned its record     *)
(***************************************************************************)
VARIABLES aggRecords, aggResult, aggDone,
          recCum, recIn, recOut, recDone,
          files, syncState, emitted, synced,
          payOrder, payTotals, payDone,
          scanPath, scanFile, scanCursor, scanOut, scanDone,
          memHeap, memState, memBefore, memCall, memOut, memDone, memRuns,
          runDisk, runConfig, runFiles, runClock, runLast,
          srcFiles, srcCursors, srcOut, srcDone,
          rateLast, rateNow, rateOut, rateDone,
          upDisk, upQueue, upFiles, upNow, upRuns, upForced, upLast,
          qFile, qOffered, qCount, qUpdates,
          rtMax, rtAttempt, rtRequests, rtHasLast, rtLast, rtWait, rtPc, rtResult,
          wtDisk, wtQueue, wtNow, wtPc, wtRuns, wtPrevStart, wtLastStart, wtLastStatus, wtDelay,
          prPc, prEnv, prStart, prSnap, prRun, prPlan, prSent, prPending, prReads, prWrites, prDisk, prQueue, prFiles, prClock, prWriters,
          plDevice, plNow, plExpiresAt, plInterval, plPc, plLast, plPolledAt, plSlowDowns, plWait, plResult,
          gtIn, gtOut, gtDone,
          spRecords, spBase, spAt, spRuns, spLedger, spWhole, spWholeDone,
          tlSnaps, tlBase, tlAt, tlBatches, tlCum, tlSum,
          lsFiles, lsCursors, lsList, lsOut, lsDone,
          ptIndex, ptSeenPartial, ptCount

aggVars == <<aggRecords, aggResult, aggDone>>

recVars == <<recCum, recIn, recOut, recDone>>

syncVars == <<files, syncState, emitted, synced>>

payVars == <<payOrder, payTotals, payDone>>

scanVars == <<scanPath, scanFile, scanCursor, scanOut, scanDone>>

memVars == <<memHeap, memState, memBefore, memCall, memOut, memDone, memRuns>>

AggIdle == aggRecords = <<>> /\ aggResult = <<>> /\ aggDone = FALSE

RecIdle == /\ recCum = EmptyMap
           /\ recIn = [records |-> <<>>, cumulative |-> EmptyMap]
           /\ recOut = [records |-> <<>>, cumulative |-> EmptyMap, warnings |-> <<>>]
           /\ recDone = FALSE

SyncIdle == /\ files = EmptyMap
            /\ syncState = DEFAULT_STATE
            /\ emitted = EmptyMap
            /\ synced = FALSE

PayIdle == payOrder = <<>> /\ payTotals = <<>> /\ payDone = FALSE

NoScan == [records |-> <<>>, warnings |-> <<>>, cursor |-> <<>>, opened |-> FALSE]

ScanIdle == /\ scanPath = ""
            /\ scanFile = [lines |-> <<>>, mtimeMs |-> 0]
            /\ scanCursor = <<>>
            /\ scanOut = NoScan
            /\ scanDone = FALSE

NoTotals == [dailyTotals |-> EmptyMap, cumulativeTotals |-> EmptyMap]

MemIdle == /\ memHeap = <<>>
           /\ memState = NoTotals
           /\ memBefore = NoTotals
           /\ memCall = [records |-> <<>>, aggregates |-> <<>>]
           /\ memOut = NoTotals
           /\ memDone = FALSE
           /\ memRuns = 0

runVars == <<runDisk, runConfig, runFiles, runClock, runLast>>

NoRun == [ran |-> FALSE, before |-> AbsentFile, readable |-> TRUE,
          out |-> earlyReturn(errorResult(""), AbsentFile, <<>>, FALSE, 0)]

RunIdle == /\ runDisk = AbsentFile
           /\ runConfig = [readable |-> TRUE, usagePath |-> "", apiBaseUrl |-> FALSE,
                         localOnly |-> FALSE]
           /\ runFiles = EmptyMap
           /\ runClock = 0
           /\ runLast = NoRun

srcVars == <<srcFiles, srcCursors, srcOut, srcDone>>

NoParse == [records |-> <<>>, warnings |-> <<>>, cursors |-> EmptyMap]

SrcIdle == /\ srcFiles = EmptyMap
           /\ srcCursors = EmptyMap
           /\ srcOut = NoParse
           /\ srcDone = FALSE

rateVars == <<rateLast, rateNow, rateOut, rateDone>>

NoStatus == [threw |-> FALSE, limited |-> FALSE, nextAllowedAt |-> NoString]

RateIdle == /\ rateLast = NoString
            /\ rateNow = 0
            /\ rateOut = NoStatus
            /\ rateDone = FALSE

upVars == <<upDisk, upQueue, upFiles, upNow, upRuns, upForced, upLast>>

NoConfig == [readable |-> TRUE, usagePath |-> "", apiBaseUrl |-> FALSE, localOnly |-> FALSE]

NoUpload == [ran |-> FALSE, before |-> AbsentFile, queue |-> <<>>, now |-> 0,
             config |-> NoConfig, env |-> LocalOnlyEnv, prevSuccess |-> NaN,
             out |-> earlyReturn(errorResult(""), AbsentFile, <<>>, FALSE, 0)]

UpIdle == /\ upDisk = AbsentFile
          /\ upQueue = <<>>
          /\ upFiles = EmptyMap
          /\ upNow = 0
          /\ upRuns = 0
          /\ upForced = FALSE
          /\ upLast = NoUpload

queueVars == <<qFile, qOffered, qCount, qUpdates>>

QueueIdle == /\ qFile = <<>>
             /\ qOffered = <<>>
             /\ qCount = 0
             /\ qUpdates = 0

retryVars == <<rtMax, rtAttempt, rtRequests, rtHasLast, rtLast, rtWait, rtPc, rtResult>>

RetryIdle == /\ rtMax = 0
             /\ rtAttempt = 0
             /\ rtRequests = 0
             /\ rtHasLast = FALSE
             /\ rtLast = NoResponse
             /\ rtWait = 0
             /\ rtPc = "idle"
             /\ rtResult = withAttempts(NoResponse, 0)

watchVars == <<wtDisk, wtQueue, wtNow, wtPc, wtRuns, wtPrevStart, wtLastStart,
               wtLastStatus, wtDelay>>

WatchIdle == /\ wtDisk = AbsentFile
             /\ wtQueue = <<>>
             /\ wtNow = 0
             /\ wtPc = "idle"
             /\ wtRuns = 0
             /\ wtPrevStart = 0
             /\ wtLastStart = 0
             /\ wtLastStatus = ""
             /\ wtDelay = 0

procVars == <<prPc, prEnv, prStart, prSnap, prRun, prPlan, prSent, prPending, prReads,
              prWrites, prDisk, prQueue, prFiles, prClock, prWriters>>

ProcIdle == /\ prPc = <<>>
            /\ prEnv = <<>>
            /\ prStart = <<>>
            /\ prSnap = <<>>
            /\ prRun = <<>>
            /\ prPlan = <<>>
            /\ prSent = <<>>
            /\ prPending = <<>>
            /\ prReads = <<>>
            /\ prWrites = <<>>
            /\ prDisk = AbsentFile
            /\ prQueue = <<>>
            /\ prFiles = EmptyMap
            /\ prClock = 0
            /\ prWriters = <<>>

pollVars == <<plDevice, plNow, plExpiresAt, plInterval, plPc, plLast, plPolledAt,
              plSlowDowns, plWait, plResult>>

NoDevice == [expiresIn |-> 0, interval |-> 0]

PollIdle == /\ plDevice = NoDevice
            /\ plNow = 0
            /\ plExpiresAt = 0
            /\ plInterval = 0
            /\ plPc = "idle"
            /\ plLast = NoAnswer
            /\ plPolledAt = 0
            /\ plSlowDowns = 0
            /\ plWait = 0
            /\ plResult = NoPoll

gateVars == <<gtIn, gtOut, gtDone>>

NoGate == [disk |-> AbsentFile, now |-> 0, files |-> EmptyMap, config |-> NoConfig,
           env |-> LocalOnlyEnv]

GateIdle == /\ gtIn = NoGate
            /\ gtOut = earlyReturn(errorResult(""), AbsentFile, <<>>, FALSE, 0)
            /\ gtDone = FALSE

splitVars == <<spRecords, spBase, spAt, spRuns, spLedger, spWhole, spWholeDone>>

SplitIdle == /\ spRecords = <<>>
             /\ spBase = EmptyMap
             /\ spAt = 0
             /\ spRuns = 0
             /\ spLedger = EmptyMap
             /\ spWhole = EmptyMap
             /\ spWholeDone = FALSE

teleVars == <<tlSnaps, tlBase, tlAt, tlBatches, tlCum, tlSum>>

TeleIdle == /\ tlSnaps = <<>>
            /\ tlBase = EmptyMap
            /\ tlAt = 0
            /\ tlBatches = 0
            /\ tlCum = EmptyMap
            /\ tlSum = emptyTotals

listVars == <<lsFiles, lsCursors, lsList, lsOut, lsDone>>

ListIdle == /\ lsFiles = EmptyMap
            /\ lsCursors = EmptyMap
            /\ lsList = <<>>
            /\ lsOut = NoParse
            /\ lsDone = FALSE

partVars == <<ptIndex, ptSeenPartial, ptCount>>

PartIdle == ptIndex = 0 /\ ptSeenPartial = FALSE /\ ptCount = 0

\* Frames: all variables and, for each specification, the groups it leaves idle.
vars == <<aggVars, recVars, syncVars, payVars, scanVars, memVars, runVars, srcVars, rateVars, upVars, queueVars, retryVars, watchVars, procVars, pollVars, gateVars, splitVars, teleVars, listVars, partVars>>

aggOthers == <<recVars, syncVars, payVars, scanVars, memVars, runVars, srcVars, rateVars, upVars, queueVars, retryVars, watchVars, procVars, pollVars, gateVars, splitVars, teleVars, listVars, partVars>>

AggOthersIdle == RecIdle /\ SyncIdle /\ PayIdle /\ ScanIdle /\ MemIdle /\ RunIdle /\ SrcIdle /\ RateIdle /\ UpIdle /\ QueueIdle /\ RetryIdle /\ WatchIdle /\ ProcIdle /\ PollIdle /\ GateIdle /\ SplitIdle /\ TeleIdle /\ ListIdle /\ PartIdle

recOthers == <<aggVars, syncVars, payVars, scanVars, memVars, runVars, srcVars, rateVars, upVars, queueVars, retryVars, watchVars, procVars, pollVars, gateVars, splitVars, teleVars, listVars, partVars>>

RecOthersIdle == AggIdle /\ SyncIdle /\ PayIdle /\ ScanIdle /\ MemIdle /\ RunIdle /\ SrcIdle /\ RateIdle /\ UpIdle /\ QueueIdle /\ RetryIdle /\ WatchIdle /\ ProcIdle /\ PollIdle /\ GateIdle /\ SplitIdle /\ TeleIdle /\ ListIdle /\ PartIdle

syncOthers == <<aggVars, recVars, payVars, scanVars, memVars, runVars, srcVars, rateVars, upVars, queueVars, retryVars, watchVars, procVars, pollVars, gateVars, splitVars, teleVars, listVars, partVars>>

SyncOthersIdle == AggIdle /\ RecIdle /\ PayIdle /\ ScanIdle /\ MemIdle /\ RunIdle /\ SrcIdle /\ RateIdle /\ UpIdle /\ QueueIdle /\ RetryIdle /\ WatchIdle /\ ProcIdle /\ PollIdle /\ GateIdle /\ SplitIdle /\ TeleIdle /\ ListIdle /\ PartIdle

orderOthers == <<recVars, syncVars, scanVars, memVars, runVars, srcVars, rateVars, upVars, queueVars, retryVars, watchVars, procVars, pollVars, gateVars, splitVars, teleVars, listVars, partVars>>

OrderOthersIdle == RecIdle /\ SyncIdle /\ ScanIdle /\ MemIdle /\ RunIdle /\ SrcIdle /\ RateIdle /\ UpIdle /\ QueueIdle /\ RetryIdle /\ WatchIdle /\ ProcIdle /\ PollIdle /\ GateIdle /\ SplitIdle /\ TeleIdle /\ ListIdle /\ PartIdle

scanOthers == <<aggVars, recVars, syncVars, payVars, memVars, runVars, srcVars, rateVars, upVars, queueVars, retryVars, watchVars, procVars, pollVars, gateVars, splitVars, teleVars, listVars, partVars>>

ScanOthersIdle == AggIdle /\ RecIdle /\ SyncIdle /\ PayIdle /\ MemIdle /\ RunIdle /\ SrcIdle /\ RateIdle /\ UpIdle /\ QueueIdle /\ RetryIdle /\ WatchIdle /\ ProcIdle /\ PollIdle /\ GateIdle /\ SplitIdle /\ TeleIdle /\ ListIdle /\ PartIdle

mergeOthers == <<aggVars, recVars, syncVars, payVars, scanVars, runVars, srcVars, rateVars, upVars, queueVars, retryVars, watchVars, procVars, pollVars, gateVars, splitVars, teleVars, listVars, partVars>>

MergeOthersIdle == AggIdle /\ RecIdle /\ SyncIdle /\ PayIdle /\ ScanIdle /\ RunIdle /\ SrcIdle /\ RateIdle /\ UpIdle /\ QueueIdle /\ RetryIdle /\ WatchIdle /\ ProcIdle /\ PollIdle /\ GateIdle /\ SplitIdle /\ TeleIdle /\ ListIdle /\ PartIdle

runOthers == <<aggVars, recVars, syncVars, payVars, scanVars, memVars, srcVars, rateVars, upVars, queueVars, retryVars, watchVars, procVars, pollVars, gateVars, splitVars, teleVars, listVars, partVars>>

RunOthersIdle == AggIdle /\ RecIdle /\ SyncIdle /\ PayIdle /\ ScanIdle /\ MemIdle /\ SrcIdle /\ RateIdle /\ UpIdle /\ QueueIdle /\ RetryIdle /\ WatchIdle /\ ProcIdle /\ PollIdle /\ GateIdle /\ SplitIdle /\ TeleIdle /\ ListIdle /\ PartIdle

sourcesOthers == <<aggVars, recVars, syncVars, payVars, scanVars, memVars, runVars, rateVars, upVars, queueVars, retryVars, watchVars, procVars, pollVars, gateVars, splitVars, teleVars, listVars, partVars>>

SourcesOthersIdle == AggIdle /\ RecIdle /\ SyncIdle /\ PayIdle /\ ScanIdle /\ MemIdle /\ RunIdle /\ RateIdle /\ UpIdle /\ QueueIdle /\ RetryIdle /\ WatchIdle /\ ProcIdle /\ PollIdle /\ GateIdle /\ SplitIdle /\ TeleIdle /\ ListIdle /\ PartIdle

rateOthers == <<aggVars, recVars, syncVars, payVars, scanVars, memVars, runVars, srcVars, upVars, queueVars, retryVars, watchVars, procVars, pollVars, gateVars, splitVars, teleVars, listVars, partVars>>

RateOthersIdle == AggIdle /\ RecIdle /\ SyncIdle /\ PayIdle /\ ScanIdle /\ MemIdle /\ RunIdle /\ SrcIdle /\ UpIdle /\ QueueIdle /\ RetryIdle /\ WatchIdle /\ ProcIdle /\ PollIdle /\ GateIdle /\ SplitIdle /\ TeleIdle /\ ListIdle /\ PartIdle

uploadOthers == <<aggVars, recVars, syncVars, payVars, scanVars, memVars, runVars, srcVars, rateVars, queueVars, retryVars, watchVars, procVars, pollVars, gateVars, splitVars, teleVars, listVars, partVars>>

UploadOthersIdle == AggIdle /\ RecIdle /\ SyncIdle /\ PayIdle /\ ScanIdle /\ MemIdle /\ RunIdle /\ SrcIdle /\ RateIdle /\ QueueIdle /\ RetryIdle /\ WatchIdle /\ ProcIdle /\ PollIdle /\ GateIdle /\ SplitIdle /\ TeleIdle /\ ListIdle /\ PartIdle

queueOthers == <<aggVars, recVars, syncVars, payVars, scanVars, memVars, runVars, srcVars, rateVars, upVars, retryVars, watchVars, procVars, pollVars, gateVars, splitVars, teleVars, listVars, partVars>>

QueueOthersIdle == AggIdle /\ RecIdle /\ SyncIdle /\ PayIdle /\ ScanIdle /\ MemIdle /\ RunIdle /\ SrcIdle /\ RateIdle /\ UpIdle /\ RetryIdle /\ WatchIdle /\ ProcIdle /\ PollIdle /\ GateIdle /\ SplitIdle /\ TeleIdle /\ ListIdle /\ PartIdle

retryOthers == <<aggVars, recVars, syncVars, payVars, scanVars, memVars, runVars, srcVars, rateVars, upVars, queueVars, watchVars, procVars, pollVars, gateVars, splitVars, teleVars, listVars, partVars>>

RetryOthersIdle == AggIdle /\ RecIdle /\ SyncIdle /\ PayIdle /\ ScanIdle /\ MemIdle /\ RunIdle /\ SrcIdle /\ RateIdle /\ UpIdle /\ QueueIdle /\ WatchIdle /\ ProcIdle /\ PollIdle /\ GateIdle /\ SplitIdle /\ TeleIdle /\ ListIdle /\ PartIdle

watchOthers == <<aggVars, recVars, syncVars, payVars, scanVars, memVars, runVars, srcVars, rateVars, upVars, queueVars, retryVars, procVars, pollVars, gateVars, splitVars, teleVars, listVars, partVars>>

WatchOthersIdle == AggIdle /\ RecIdle /\ SyncIdle /\ PayIdle /\ ScanIdle /\ MemIdle /\ RunIdle /\ SrcIdle /\ RateIdle /\ UpIdle /\ QueueIdle /\ RetryIdle /\ ProcIdle /\ PollIdle /\ GateIdle /\ SplitIdle /\ TeleIdle /\ ListIdle /\ PartIdle

procOthers == <<aggVars, recVars, syncVars, payVars, scanVars, memVars, runVars, srcVars, rateVars, upVars, queueVars, retryVars, watchVars, pollVars, gateVars, splitVars, teleVars, listVars, partVars>>

ProcOthersIdle == AggIdle /\ RecIdle /\ SyncIdle /\ PayIdle /\ ScanIdle /\ MemIdle /\ RunIdle /\ SrcIdle /\ RateIdle /\ UpIdle /\ QueueIdle /\ RetryIdle /\ WatchIdle /\ PollIdle /\ GateIdle /\ SplitIdle /\ TeleIdle /\ ListIdle /\ PartIdle

pollOthers == <<aggVars, recVars, syncVars, payVars, scanVars, memVars, runVars, srcVars, rateVars, upVars, queueVars, retryVars, watchVars, procVars, gateVars, splitVars, teleVars, listVars, partVars>>

PollOthersIdle == AggIdle /\ RecIdle /\ SyncIdle /\ PayIdle /\ ScanIdle /\ MemIdle /\ RunIdle /\ SrcIdle /\ RateIdle /\ UpIdle /\ QueueIdle /\ RetryIdle /\ WatchIdle /\ ProcIdle /\ GateIdle /\ SplitIdle /\ TeleIdle /\ ListIdle /\ PartIdle

gateOthers == <<aggVars, recVars, syncVars, payVars, scanVars, memVars, runVars, srcVars, rateVars, upVars, queueVars, retryVars, watchVars, procVars, pollVars, splitVars, teleVars, listVars, partVars>>

GateOthersIdle == AggIdle /\ RecIdle /\ SyncIdle /\ PayIdle /\ ScanIdle /\ MemIdle /\ RunIdle /\ SrcIdle /\ RateIdle /\ UpIdle /\ QueueIdle /\ RetryIdle /\ WatchIdle /\ ProcIdle /\ PollIdle /\ SplitIdle /\ TeleIdle /\ ListIdle /\ PartIdle

splitOthers == <<aggVars, recVars, syncVars, payVars, scanVars, memVars, runVars, srcVars, rateVars, upVars, queueVars, retryVars, watchVars, procVars, pollVars, gateVars, teleVars, listVars, partVars>>

SplitOthersIdle == AggIdle /\ RecIdle /\ SyncIdle /\ PayIdle /\ ScanIdle /\ MemIdle /\ RunIdle /\ SrcIdle /\ RateIdle /\ UpIdle /\ QueueIdle /\ RetryIdle /\ WatchIdle /\ ProcIdle /\ PollIdle /\ GateIdle /\ TeleIdle /\ ListIdle /\ PartIdle

teleOthers == <<aggVars, recVars, syncVars, payVars, scanVars, memVars, runVars, srcVars, rateVars, upVars, queueVars, retryVars, watchVars, procVars, pollVars, gateVars, splitVars, listVars, partVars>>

TeleOthersIdle == AggIdle /\ RecIdle /\ SyncIdle /\ PayIdle /\ ScanIdle /\ MemIdle /\ RunIdle /\ SrcIdle /\ RateIdle /\ UpIdle /\ QueueIdle /\ RetryIdle /\ WatchIdle /\ ProcIdle /\ PollIdle /\ GateIdle /\ SplitIdle /\ ListIdle /\ PartIdle

listOthers == <<aggVars, recVars, syncVars, payVars, scanVars, memVars, runVars, srcVars, rateVars, upVars, queueVars, retryVars, watchVars, procVars, pollVars, gateVars, splitVars, teleVars, partVars>>

ListOthersIdle == AggIdle /\ RecIdle /\ SyncIdle /\ PayIdle /\ ScanIdle /\ MemIdle /\ RunIdle /\ SrcIdle /\ RateIdle /\ UpIdle /\ QueueIdle /\ RetryIdle /\ WatchIdle /\ ProcIdle /\ PollIdle /\ GateIdle /\ SplitIdle /\ TeleIdle /\ PartIdle

partialOthers == <<aggVars, recVars, syncVars, payVars, memVars, runVars, srcVars, rateVars, upVars, queueVars, retryVars, watchVars, procVars, pollVars, gateVars, splitVars, teleVars, listVars>>

PartialOthersIdle == AggIdle /\ RecIdle /\ SyncIdle /\ PayIdle /\ MemIdle /\ RunIdle /\ SrcIdle /\ RateIdle /\ UpIdle /\ QueueIdle /\ RetryIdle /\ WatchIdle /\ ProcIdle /\ PollIdle /\ GateIdle /\ SplitIdle /\ TeleIdle /\ ListIdle

\* Model names.
M_GPT == <<"gpt">>

M_O1 == <<"o1">>

M_SCOPED == <<"gpt", "::", "x">>

\* All sequences over S of length at most n.
SeqsUpTo(S, n) == UNION {[1..k -> S] : k \in 0..n}

(***************************************************************************)
(* SpecAgg: aggregateUsage applied to every batch of at most MaxRecs       *)
(* records drawn from AggRecordSet.                                        *)
(***************************************************************************)
AggTokenSet ==
    {[input |-> 2, output |-> 1],
     [input |-> 1, cache |-> 3, total |-> 9],
     [total |-> 5],
     [input |-> 0, cache |-> 2, thinking |-> 1, total |-> 0],
     [input |-> 1, output |-> -1, cache |-> 1],
     [input |-> 10, output |-> 6, cache |-> 4, thinking |-> 2, total |-> 0]}

AggKeySet == {<<"2026-01-02", M_GPT>>, <<"2026-01-01", M_SCOPED>>, <<"2026-01-01", M_GPT>>}

AggRecordSet ==
    {[day |-> k[1], model |-> k[2], tokens |-> t, source |-> "a.jsonl", mode |-> "delta"] :
        k \in AggKeySet, t \in AggTokenSet}
    \cup
    {[day |-> "2026-01-02", model |-> M_GPT, tokens |-> t, source |-> src,
      mode |-> "cumulative"] :
        t \in {[input |-> 2, output |-> 1], [total |-> 5]}, src \in {"a.jsonl"}}

AggInit ==
    /\ aggRecords \in SeqsUpTo(AggRecordSet, MaxRecs)
    /\ aggResult = <<>>
    /\ aggDone = FALSE
    /\ AggOthersIdle

Aggregate ==
    /\ ~aggDone
    /\ aggResult' = aggregateUsage(aggRecords)
    /\ aggDone' = TRUE
    /\ UNCHANGED <<aggRecords, aggOthers>>

AggNext == Aggregate

SpecAgg == AggInit /\ [][AggNext]_vars

(***************************************************************************)
(* Properties of aggregateUsage (SpecAgg).                                 *)
(***************************************************************************)
AggDeltaOnly == \A i \in DOMAIN aggRecords : aggRecords[i].mode # "cumulative"

AggKeysOf(records) == {<<records[i].day, records[i].model>> : i \in DOMAIN records}

\* The sum of axis a (absent counting 0) over the records of `records` that
\* satisfy Pick.
RECURSIVE AxisSum(_, _)
AxisSum(records, a) ==
    IF records = <<>> THEN 0
    ELSE OrZero(Head(records).tokens, a) + AxisSum(Tail(records), a)

DeltaAxisSum(records, day, model, a) ==
    AxisSum(SelectSeq(records,
                LAMBDA r : r.day = day /\ r.model = model /\ r.mode # "cumulative"), a)

\* C8: for a batch of delta-mode records the result has exactly one entry per
\* distinct (day, model) pair of the batch, and the entry's input, output, cache
\* and thinking are the sums of that axis over the pair's records.
C8_OneEntryPerKeyWithSums ==
    (aggDone /\ AggDeltaOnly) =>
        /\ AggKeysOf(aggResult) = AggKeysOf(aggRecords)
        /\ Len(aggResult) = Cardinality(AggKeysOf(aggRecords))
        /\ \A j \in DOMAIN aggResult : \A a \in SumAxes :
              aggResult[j].tokens[a] =
                  DeltaAxisSum(aggRecords, aggResult[j].day, aggResult[j].model, a)

C8_Witness ==
    /\ aggDone
    /\ AggDeltaOnly
    /\ Len(aggRecords) = 3
    /\ Len(aggResult) = 2
    /\ \E j \in DOMAIN aggResult : aggResult[j].tokens.input = 12

\* The values the claim gives for inputTotal, case by case.
C9_InputTotals(t) ==
    {t.input + t.cache : x \in {1} \cap (IF t.cache > t.input THEN {1} ELSE {})}
    \cup {t.input : x \in {1} \cap (IF 0 < t.input /\ t.cache <= t.input THEN {1} ELSE {})}
    \cup {t.cache : x \in {1} \cap (IF t.input = 0 THEN {1} ELSE {})}

\* C9: in every aggregate entry, with inputTotal = input + cache when
\* cache > input, input when 0 < input and cache <= input, and cache when input
\* is 0, a positive inputTotal + output + thinking is the entry's total.
C9_TotalComposition ==
    aggDone =>
        \A j \in DOMAIN aggResult :
            LET t == aggResult[j].tokens
            IN  \A it \in C9_InputTotals(t) :
                    it + t.output + t.thinking > 0 => t.total = it + t.output + t.thinking

C9_Witness ==
    /\ aggDone
    /\ \E j \in DOMAIN aggResult :
          aggResult[j].tokens =
              [input |-> 10, output |-> 6, cache |-> 4, thinking |-> 2, total |-> 18]
    /\ \E j \in DOMAIN aggResult :
          LET t == aggResult[j].tokens
          IN  t.cache > t.input /\ t.total = t.input + t.cache + t.output + t.thinking

\* The composed sum of an entry: adjusted input + output + thinking.
ComposedSum(t) == inputTotal(t) + outputTotal(t)

PlainSum(t) == t.input + t.output + t.cache + t.thinking

\* The greatest total (at least 0) among the cumulative records of one source.
RECURSIVE CumulativeMaxTotal(_, _, _, _)
CumulativeMaxTotal(records, day, model, source) ==
    IF records = <<>> THEN 0
    ELSE LET r == Head(records)
             rest == CumulativeMaxTotal(Tail(records), day, model, source)
         IN  IF r.mode = "cumulative" /\ r.day = day /\ r.model = model /\ r.source = source
             THEN MaxOf(OrZero(r.tokens, "total"), rest) ELSE rest

RECURSIVE CumulativeMaxTotals(_, _, _, _)
CumulativeMaxTotals(records, day, model, sources) ==
    IF sources = {} THEN 0
    ELSE LET src == CHOOSE y \in sources : TRUE
         IN  CumulativeMaxTotal(records, day, model, src)
             + CumulativeMaxTotals(records, day, model, sources \ {src})

\* The total the records themselves carry for a (day, model): delta totals
\* summed, plus the greatest total of each cumulative source.
SourceTotal(records, day, model) ==
    DeltaAxisSum(records, day, model, "total")
    + CumulativeMaxTotals(records, day, model,
                          {records[i].source : i \in DOMAIN records})

\* C10 as stated: the total is the composed sum when that is positive, and the
\* plain sum of the four axes when the composed sum is zero.
C10_Original ==
    aggDone =>
        \A j \in DOMAIN aggResult :
            LET t == aggResult[j].tokens
            IN  /\ ComposedSum(t) > 0 => t.total = ComposedSum(t)
                /\ ComposedSum(t) = 0 => t.total = PlainSum(t)

\* C10 amended: the total is the composed sum when that is positive, whatever
\* totals the records carried; otherwise it is the total the records carried
\* when that is not 0, else the plain sum of the four axes when that is
\* positive, else 0.
C10_DerivedTotal ==
    aggDone =>
        \A j \in DOMAIN aggResult :
            LET t == aggResult[j].tokens
                carried == SourceTotal(aggRecords, aggResult[j].day, aggResult[j].model)
            IN  /\ ComposedSum(t) > 0 => t.total = ComposedSum(t)
                /\ ComposedSum(t) <= 0 =>
                      t.total = IF carried # 0 THEN carried
                                ELSE IF PlainSum(t) > 0 THEN PlainSum(t) ELSE 0

C10_Witness ==
    /\ aggDone
    /\ \E j \in DOMAIN aggResult :
          ComposedSum(aggResult[j].tokens) = 0 /\ aggResult[j].tokens.total = 5
    /\ \E j \in DOMAIN aggResult :
          /\ ComposedSum(aggResult[j].tokens) > 0
          /\ SourceTotal(aggRecords, aggResult[j].day, aggResult[j].model) = 9
          /\ aggResult[j].tokens.total = 4

(***************************************************************************)
(* SpecCum: aggregateUsage applied to batches that hold raw cumulative     *)
(* records of two sources, next to delta records.                          *)
(***************************************************************************)
CumTokenSet ==
    {[input |-> 5, output |-> 2, total |-> 7],
     [input |-> 3, output |-> 1, total |-> 4],
     [input |-> 2, output |-> 1, total |-> 3],
     [input |-> -1, cache |-> 4]}

CumRecordSet ==
    {[day |-> "2026-01-01", model |-> M_GPT, tokens |-> t, source |-> src,
      mode |-> "cumulative"] : t \in CumTokenSet, src \in {"a.jsonl", "b.jsonl"}}
    \cup
    {[day |-> "2026-01-02", model |-> M_GPT, tokens |-> [input |-> 5, output |-> 2, total |-> 7],
      source |-> "a.jsonl", mode |-> "cumulative"],
     [day |-> "2026-01-01", model |-> M_GPT, tokens |-> [input |-> 2, output |-> 1],
      source |-> "a.jsonl", mode |-> "delta"]}

CumInit ==
    /\ aggRecords \in SeqsUpTo(CumRecordSet, MaxRecs)
    /\ aggResult = <<>>
    /\ aggDone = FALSE
    /\ AggOthersIdle

SpecCum == CumInit /\ [][AggNext]_vars

(***************************************************************************)
(* Properties of aggregateUsage on cumulative records (SpecCum).           *)
(***************************************************************************)
CumulativeOf(records, day, model, source) ==
    SelectSeq(records, LAMBDA r : r.mode = "cumulative" /\ r.day = day
                                  /\ r.model = model /\ r.source = source)

\* The greatest value of axis a (absent counting 0) among the records.
RECURSIVE AxisMax(_, _)
AxisMax(records, a) ==
    IF Len(records) = 1 THEN OrZero(records[1].tokens, a)
    ELSE MaxOf(OrZero(Head(records).tokens, a), AxisMax(Tail(records), a))

\* What the sources add to a (day, model) on axis a, each source giving
\* floor(the greatest value among its cumulative records), none if it has no
\* such record.
RECURSIVE CumulativeContribution(_, _, _, _, _, _)
CumulativeContribution(records, day, model, sources, a, floored) ==
    IF sources = {} THEN 0
    ELSE LET src == CHOOSE y \in sources : TRUE
             own == CumulativeOf(records, day, model, src)
             most == IF own = <<>> THEN 0
                     ELSE IF floored THEN Max0(AxisMax(own, a)) ELSE AxisMax(own, a)
         IN  most + CumulativeContribution(records, day, model, sources \ {src}, a, floored)

CumSources == {aggRecords[i].source : i \in DOMAIN aggRecords}

CumEntriesAre(floored) ==
    aggDone =>
        /\ AggKeysOf(aggResult) = AggKeysOf(aggRecords)
        /\ Len(aggResult) = Cardinality(AggKeysOf(aggRecords))
        /\ \A j \in DOMAIN aggResult : \A a \in SumAxes :
              aggResult[j].tokens[a] =
                  DeltaAxisSum(aggRecords, aggResult[j].day, aggResult[j].model, a)
                  + CumulativeContribution(aggRecords, aggResult[j].day,
                                           aggResult[j].model, CumSources, a, floored)

OrderRecordSet ==
    {[day |-> k[1], model |-> k[2], tokens |-> [input |-> 1], source |-> "a.jsonl",
      mode |-> "delta"] :
        k \in {<<"2026-01-02", M_GPT>>, <<"2026-01-01", M_O1>>,
               <<"2026-01-01", M_GPT>>, <<"2026-01-01", M_SCOPED>>}}
    \cup
    {[day |-> "2026-01-01", model |-> M_GPT, tokens |-> [input |-> 2, output |-> 1],
      source |-> "a.jsonl", mode |-> "cumulative"]}

\* Every order in which the elements of S can be listed.
Orderings(S) ==
    {f \in [1..Cardinality(S) -> S] : \A x \in S : \E i \in DOMAIN f : f[i] = x}

OrderInit ==
    /\ aggRecords \in SeqsUpTo(OrderRecordSet, MaxRecs)
    /\ aggResult = <<>>
    /\ aggDone = FALSE
    /\ AggOthersIdle

BuildPayload(keyOrder) ==
    /\ aggDone
    /\ ~payDone
    /\ payOrder' = keyOrder
    /\ payTotals' = buildSyncPayload(mergeAggregates(EmptyMap, aggResult), keyOrder).totals
    /\ payDone' = TRUE
    /\ UNCHANGED <<aggVars, orderOthers>>

OrderNext ==
    \/ Aggregate
    \/ \E keyOrder \in Orderings(DOMAIN mergeAggregates(EmptyMap, aggResult)) :
          BuildPayload(keyOrder)

SpecOrder == OrderInit /\ [][OrderNext]_vars

(***************************************************************************)
(* Properties of the two sorts (SpecOrder).                                *)
(***************************************************************************)
DayRank(day) == IndexIn(DayOrder, day)

\* Model name a is not after model name b: a begins b, or the first piece in
\* which they differ is the smaller in a.
ModelNotAfter(a, b) ==
    \/ Len(a) <= Len(b) /\ \A i \in 1..Len(a) : a[i] = b[i]
    \/ \E k \in 1..Len(a) :
          /\ k <= Len(b)
          /\ \A i \in 1..(k - 1) : a[i] = b[i]
          /\ IndexIn(TokenOrder, a[k]) < IndexIn(TokenOrder, b[k])

SortedByDayThenModel(list) ==
    \A i, j \in DOMAIN list :
        i < j => \/ DayRank(list[i].day) < DayRank(list[j].day)
                 \/ /\ list[i].day = list[j].day
                    /\ ModelNotAfter(list[i].model, list[j].model)

\* C12: whatever the order of the records and whatever the order in which the
\* ledger's keys are iterated, the list aggregateUsage returns and the totals
\* of the payload are in ascending order of day and, within a day, of model.
C12_SortedByDayThenModel ==
    /\ aggDone => SortedByDayThenModel(aggResult)
    /\ payDone => SortedByDayThenModel(payTotals) /\ Len(payTotals) = Len(payOrder)

C12_Witness ==
    /\ payDone
    /\ Len(payTotals) = 3
    /\ ~SortedByDayThenModel([i \in DOMAIN aggRecords |->
                                 [day |-> aggRecords[i].day, model |-> aggRecords[i].model]])
    /\ payOrder[1][1] = "2026-01-02"
    /\ \E i \in DOMAIN payTotals : payTotals[i].model = M_O1
    /\ \E i \in DOMAIN aggResult : aggResult[i].model = M_SCOPED

\* The ledger the payload was built from, and the (day, model) pairs under
\* which mergeAggregates filed usage in it.
OrderLedger == mergeAggregates(EmptyMap, aggResult)

\* The payload has an entry with this day, this model and the ledger's totals
\* of the pair.
PayloadHolds(day, model) ==
    \E j \in DOMAIN payTotals :
        /\ payTotals[j].day = day
        /\ payTotals[j].model = model
        /\ payTotals[j].tokens = OrderLedger[DayModelKey(day, model)]

\* C37: the payload has one totals entry per key of the ledger, and for every
\* (day, model) pair under which usage was merged, whatever the model's name,
\* an entry with that day, that model and the pair's totals.
C37_PayloadMirrorsLedger ==
    payDone =>
        /\ Len(payTotals) = Cardinality(DOMAIN OrderLedger)
        /\ \A i \in DOMAIN aggResult : PayloadHolds(aggResult[i].day, aggResult[i].model)

\* The same for the models whose name holds no "::".
PlainModel(model) == \A i \in DOMAIN model : model[i] # SEP

PayloadMirrorsPlainModels ==
    payDone =>
        /\ Len(payTotals) = Cardinality(DOMAIN OrderLedger)
        /\ \A i \in DOMAIN aggResult :
               PlainModel(aggResult[i].model)
                   => PayloadHolds(aggResult[i].day, aggResult[i].model)

\* Usage merged under the model gpt::x is in the payload under the model gpt,
\* next to the entry of the model gpt itself.
ScopedModelCut ==
    /\ payDone
    /\ \E i \in DOMAIN aggResult :
           aggResult[i].day = "2026-01-01" /\ aggResult[i].model = M_SCOPED
    /\ ~PayloadHolds("2026-01-01", M_SCOPED)
    /\ Cardinality({j \in DOMAIN payTotals :
                       payTotals[j].day = "2026-01-01" /\ payTotals[j].model = M_GPT}) = 2

(***************************************************************************)
(* SpecRecon: applyCumulativeAdjustments applied again and again, each     *)
(* call on a batch of at most MaxRecs records and on the cumulative map    *)
(* the previous call returned (the map of a fresh install at first).       *)
(***************************************************************************)
RecTokenSet ==
    {[input |-> 5, output |-> 2, total |-> 7],
     [input |-> 3, output |-> 1, total |-> 4],
     [input |-> 7, output |-> 1]}

RecKeySet == {<<"a.jsonl", "2026-01-01", M_GPT>>, <<"b.jsonl", "2026-01-02", M_SCOPED>>}

RecRecordSet ==
    {[day |-> k[2], model |-> k[3], tokens |-> t, source |-> k[1], mode |-> "cumulative"] :
        k \in RecKeySet, t \in RecTokenSet}
    \cup
    {[day |-> "2026-01-01", model |-> M_GPT, tokens |-> [input |-> 2, output |-> -1],
      source |-> "a.jsonl", mode |-> "delta"],
     [day |-> "2026-01-01", model |-> M_GPT, tokens |-> [total |-> 4],
      source |-> "a.jsonl", mode |-> "none"]}

RecInit ==
    /\ RecIdle
    /\ RecOthersIdle

\* A call on the persisted map.
ApplyAdjustments(batch) ==
    /\ ~recDone
    /\ recIn' = [records |-> batch, cumulative |-> recCum]
    /\ recOut' = applyCumulativeAdjustments(batch, recCum)
    /\ recDone' = TRUE
    /\ UNCHANGED <<recCum, recOthers>>

\* The same records again, on the map the call before returned.
RepeatAdjustments ==
    /\ recDone
    /\ recIn' = [records |-> recIn.records, cumulative |-> recOut.cumulative]
    /\ recOut' = applyCumulativeAdjustments(recIn.records, recOut.cumulative)
    /\ recCum' = recOut.cumulative
    /\ UNCHANGED <<recDone, recOthers>>

\* The returned map becomes the persisted one.
PersistAdjustments ==
    /\ recDone
    /\ recCum' = recOut.cumulative
    /\ recIn' = [records |-> <<>>, cumulative |-> EmptyMap]
    /\ recOut' = [records |-> <<>>, cumulative |-> EmptyMap, warnings |-> <<>>]
    /\ recDone' = FALSE
    /\ UNCHANGED recOthers

RecNext ==
    \/ \E batch \in SeqsUpTo(RecRecordSet, MaxRecs) : ApplyAdjustments(batch)
    \/ RepeatAdjustments
    \/ PersistAdjustments

SpecRecon == RecInit /\ [][RecNext]_vars

(***************************************************************************)
(* Properties of applyCumulativeAdjustments (SpecRecon).                   *)
(***************************************************************************)
\* What the call has returned once its loop has handled the first n records.
RecAfter(n) == applyCumulativeAdjustments(SubSeq(recIn.records, 1, n), recIn.cumulative)

RecKeyOf(r) == SourceDayModelKey(r.source, r.day, r.model)

RecIsCumulative(i) == recIn.records[i].mode = "cumulative"

RecStepOf(before, after, i) ==
    LET key == RecKeyOf(recIn.records[i])
        base == IF key \in DOMAIN before.cumulative
                THEN before.cumulative[key] ELSE emptyTotals
        cur == [input    |-> OrZero(recIn.records[i].tokens, "input"),
                output   |-> OrZero(recIn.records[i].tokens, "output"),
                cache    |-> OrZero(recIn.records[i].tokens, "cache"),
                thinking |-> OrZero(recIn.records[i].tokens, "thinking"),
                total    |-> OrZero(recIn.records[i].tokens, "total")]
    IN  [base |-> base,
         cur |-> cur,
         reset |-> RecIsCumulative(i) /\ \E a \in Axes : cur[a] < base[a],
         kept |-> /\ Len(after.records) >= Len(before.records)
                  /\ SubSeq(after.records, 1, Len(before.records)) = before.records,
         emitted |-> SubSeq(after.records, Len(before.records) + 1, Len(after.records))]

\* For record i of the batch: the snapshot it is compared with (base), its own
\* normalized tokens (cur), whether it is lower on some axis (reset), whether
\* the records returned before it are kept (kept) and the records the loop
\* returned for it (emitted).
RecStep(i) ==
    CHOOSE st \in {RecStepOf(before, after, i) :
                      before \in {RecAfter(i - 1)}, after \in {RecAfter(i)}} : TRUE

RecBaseline(i) == RecStep(i).base

RecIsReset(i) == RecStep(i).reset

RecEmitted(i) == RecStep(i).emitted

RecResetKeys ==
    {RecKeyOf(recIn.records[i]) : i \in {n \in DOMAIN recIn.records : RecIsReset(n)}}

\* C3: applying one cumulative record and then the same record again, on the map
\* the first call returned, returns no record and no warning the second time.
C3_RepeatedSnapshotIsIdempotent ==
    [][(/\ Len(recIn.records) = 1
        /\ recIn.records[1].mode = "cumulative"
        /\ recIn'.records = recIn.records
        /\ recIn'.cumulative = recOut.cumulative)
       => (recOut'.records = <<>> /\ recOut'.warnings = <<>>)]_vars

C3_Witness ==
    /\ Len(recIn.records) = 1
    /\ RecIsCumulative(1)
    /\ RecKeyOf(recIn.records[1]) \in DOMAIN recIn.cumulative
    /\ recIn.cumulative[RecKeyOf(recIn.records[1])] =
           [input |-> 5, output |-> 2, cache |-> 0, thinking |-> 0, total |-> 7]
    /\ recIn.records[1].tokens = [input |-> 5, output |-> 2, total |-> 7]
    /\ recOut.records = <<>>
    /\ recOut.warnings = <<>>

\* C4: a cumulative record lower than the stored baseline of its key on some
\* axis yields at most one record, whose axes are the differences with the
\* negative ones clamped to 0 (so none is negative), and none at all when no axis
\* rose; the reset warning of its source is emitted, once per key in the call.
C4_ResetClampsAndWarns ==
    /\ \A i \in DOMAIN recIn.records : \A st \in {RecStep(i)} :
          st.reset =>
              /\ Len(st.emitted) <= 1
              /\ \A j \in DOMAIN st.emitted : \A a \in Axes :
                    /\ st.emitted[j].tokens[a] >= 0
                    /\ st.emitted[j].tokens[a] =
                          IF st.cur[a] < st.base[a] THEN 0 ELSE st.cur[a] - st.base[a]
              /\ (\A a \in Axes : st.cur[a] <= st.base[a]) => st.emitted = <<>>
              /\ \E w \in DOMAIN recOut.warnings :
                    recOut.warnings[w] = resetWarning(recIn.records[i].source)
    /\ Len(recOut.warnings) = Cardinality(RecResetKeys)

C4_Witness ==
    /\ Len(recIn.records) = 3
    /\ RecIsReset(1) /\ RecEmitted(1) = <<>>
    /\ RecIsReset(2) /\ Len(RecEmitted(2)) = 1
    /\ RecKeyOf(recIn.records[1]) = RecKeyOf(recIn.records[2])
    /\ Len(recOut.warnings) = 1

\* The last cumulative record of the batch under key, 0 when there is none.
RecLastIndex(key) ==
    LET S == {i \in DOMAIN recIn.records : RecIsCumulative(i) /\ RecKeyOf(recIn.records[i]) = key}
    IN  IF S = {} THEN 0 ELSE CHOOSE i \in S : \A j \in S : j <= i

RecBatchKeys == {RecKeyOf(recIn.records[i]) : i \in {n \in DOMAIN recIn.records : RecIsCumulative(n)}}

\* C5: no key of the input map is deleted, and every key with a cumulative
\* record in the batch holds the normalized tokens of the last such record.
C5_SnapshotReplaced ==
    /\ DOMAIN recIn.cumulative \subseteq DOMAIN recOut.cumulative
    /\ \A key \in RecBatchKeys :
          /\ key \in DOMAIN recOut.cumulative
          /\ recOut.cumulative[key] =
                [a \in Axes |-> OrZero(recIn.records[RecLastIndex(key)].tokens, a)]

C5_Witness ==
    /\ Len(recIn.records) = 3
    /\ DOMAIN recIn.cumulative # {}
    /\ \E key \in RecBatchKeys :
          /\ key \in DOMAIN recIn.cumulative
          /\ RecIsReset(RecLastIndex(key))
          /\ RecEmitted(RecLastIndex(key)) = <<>>
          /\ recOut.cumulative[key] # recIn.cumulative[key]
    /\ \E key \in DOMAIN recIn.cumulative : key \notin RecBatchKeys
    /\ recOut.records # <<>>

\* C6: no returned record is cumulative; a record that is not cumulative is
\* returned as it is, in its place; a cumulative record yields nothing or one
\* delta record holding the clamped difference from its key's previous snapshot.
C6_DeltaOnlyOutput ==
    /\ \A j \in DOMAIN recOut.records : recOut.records[j].mode # "cumulative"
    /\ RecAfter(Len(recIn.records)).records = recOut.records
    /\ \A i \in DOMAIN recIn.records : \A st \in {RecStep(i)} :
          LET r == recIn.records[i]
          IN  /\ st.kept
              /\ IF ~RecIsCumulative(i) THEN st.emitted = <<r>>
                 ELSE \/ st.emitted = <<>>
                      \/ st.emitted =
                           <<[day |-> r.day, model |-> r.model, source |-> r.source,
                              mode |-> "delta",
                              tokens |-> [input    |-> Max0(st.cur.input - st.base.input),
                                          output   |-> Max0(st.cur.output - st.base.output),
                                          cache    |-> Max0(st.cur.cache - st.base.cache),
                                          thinking |-> Max0(st.cur.thinking - st.base.thinking),
                                          total    |-> Max0(st.cur.total - st.base.total)]]>>

C6_Witness ==
    /\ Len(recIn.records) = 3
    /\ ~RecIsCumulative(1)
    /\ RecIsCumulative(2) /\ Len(RecEmitted(2)) = 1 /\ RecBaseline(2).input = 5
    /\ RecIsCumulative(3) /\ RecEmitted(3) = <<>>
    /\ Len(recOut.records) = 2

(***************************************************************************)
(* SpecSync: sync runs over one JSON Lines usage file that only grows.     *)
(* Between runs whole lines are appended, or the file is rewritten with    *)
(* the same content (a new modification time).  RunSync is a run of        *)
(* runSyncOnce that reaches parsing; a run that ends before (unreadable    *)
(* config, no usage file) writes the three maps back as they were.         *)
(* emitted sums, per day::model, the deltas the reconciler made of         *)
(* cumulative records.                                                     *)
(***************************************************************************)
UsagePath == "a.jsonl"

NoFields == [a \in {} |-> Other]

BlankLine == [kind |-> "blank", model |-> <<>>, day |-> "", tagged |-> FALSE,
              usage |-> "none", fields |-> NoFields]

InvalidLine == [kind |-> "invalid", model |-> <<>>, day |-> "", tagged |-> FALSE,
                usage |-> "none", fields |-> NoFields]

ObjectLine(model, day, tagged, usage, fields) ==
    [kind |-> "object", model |-> model, day |-> day, tagged |-> tagged,
     usage |-> usage, fields |-> fields]

\* An object one of whose values is the array `entries`.
WrapperLine(model, tagged, entries) ==
    [kind |-> "object", model |-> model, day |-> "", tagged |-> tagged,
     usage |-> "none", fields |-> NoFields, entries |-> entries]

\* The first part of a line the producer has not finished writing: text that
\* is not JSON yet and no newline; rest is the line it becomes.
PartialLine(rest) ==
    [kind |-> "invalid", model |-> <<>>, day |-> "", tagged |-> FALSE,
     usage |-> "none", fields |-> NoFields, rest |-> rest]

\* A JSON array.
ArrayLine(entries) ==
    [kind |-> "array", model |-> <<>>, day |-> "", tagged |-> FALSE,
     usage |-> "none", fields |-> NoFields, entries |-> entries]

SyncLineSet ==
    {BlankLine,
     ObjectLine(M_O1, "", FALSE, "none", NoFields),
     ObjectLine(M_GPT, "2026-01-01", FALSE, "none", [input |-> Num(2), output |-> Num(1)]),
     ObjectLine(<<>>, "2026-01-01", TRUE, "last", [input |-> Str(1), total |-> Num(5)]),
     ObjectLine(M_GPT, "2026-01-01", FALSE, "none", [input |-> Num(-1)]),
     ObjectLine(M_GPT, "2026-01-01", TRUE, "total", [input |-> Num(1), output |-> Num(1)]),
     ObjectLine(M_GPT, "2026-01-02", TRUE, "total", [input |-> Num(2), output |-> Num(1)])}

\* discoverUsageSources for a usagePath that is this file.
SyncSources == <<[path |-> UsagePath, kind |-> "file"]>>

SyncInit ==
    /\ files = [p \in {UsagePath} |-> [lines |-> <<>>, mtimeMs |-> 0]]
    /\ syncState = DEFAULT_STATE
    /\ emitted = EmptyMap
    /\ synced = FALSE
    /\ SyncOthersIdle

\* The producer appends one complete line.
AppendLine(line) ==
    /\ Len(files[UsagePath].lines) < MaxLines
    /\ files' = [files EXCEPT ![UsagePath] =
                    [lines |-> Append(@.lines, line), mtimeMs |-> @.mtimeMs + 1]]
    /\ synced' = FALSE
    /\ UNCHANGED <<syncState, emitted, syncOthers>>

\* The file is written again with the same content.
TouchFile ==
    /\ files[UsagePath].mtimeMs - Len(files[UsagePath].lines) < MaxTouch
    /\ files' = [files EXCEPT ![UsagePath].mtimeMs = @ + 1]
    /\ UNCHANGED <<syncState, emitted, synced, syncOthers>>

IsCumulativeRecord(r) == r.mode = "cumulative"

RECURSIVE addEmitted(_, _, _)
addEmitted(sums, records, i) ==
    IF i > Len(records) THEN sums
    ELSE LET key == DayModelKey(records[i].day, records[i].model)
             entry == IF key \in DOMAIN sums THEN sums[key] ELSE emptyTotals
         IN  addEmitted(MapPut(sums, key, addTotals(entry, records[i].tokens)),
                        records, i + 1)

RunSync ==
    \E run \in {syncPipeline(syncState, SyncSources, files)} :
        /\ syncState' = nextSyncState(syncState, run)
        /\ emitted' = addEmitted(emitted,
                          applyCumulativeAdjustments(
                              SelectSeq(run.parsed.records, IsCumulativeRecord),
                              syncState.cumulativeTotals).records, 1)
        /\ synced' = TRUE
        /\ UNCHANGED <<files, syncOthers>>

SyncNext ==
    \/ \E line \in SyncLineSet : AppendLine(line)
    \/ TouchFile
    \/ RunSync

SpecSync == SyncInit /\ [][SyncNext]_vars

(***************************************************************************)
(* Properties of the sync runs (SpecSync).                                 *)
(***************************************************************************)
SyncLines == files[UsagePath].lines

\* The number of lines the persisted cursor says were read.
SyncLastLine ==
    IF UsagePath \in DOMAIN syncState.fileCursors
    THEN syncState.fileCursors[UsagePath].lastLine ELSE 0

LedgerAxis(key, a) ==
    IF key \in DOMAIN syncState.dailyTotals THEN syncState.dailyTotals[key][a] ELSE 0

EmittedAxis(key, a) == IF key \in DOMAIN emitted THEN emitted[key][a] ELSE 0

\* The model a record of line i carries: its own, else the nearest explicit
\* model above it in the file, else "unknown".
RECURSIVE LineModel(_, _)
LineModel(lines, i) ==
    IF i = 0 THEN <<"unknown">>
    ELSE IF lines[i].kind = "object" /\ lines[i].model # <<>> THEN lines[i].model
    ELSE LineModel(lines, i - 1)

\* Line i holds a usage record: a token event with a day and a numeric count.
IsRecordLine(lines, i) ==
    /\ lines[i].kind = "object"
    /\ lines[i].day # ""
    /\ \E a \in DOMAIN lines[i].fields : lines[i].fields[a].t \in {"number", "string"}

IsDeltaLine(lines, i) == IsRecordLine(lines, i) /\ lines[i].usage # "total"

IsCumulativeLine(lines, i) == IsRecordLine(lines, i) /\ lines[i].usage = "total"

LineAxis(line, a) ==
    IF a \in DOMAIN line.fields /\ line.fields[a].t \in {"number", "string"}
    THEN line.fields[a].v ELSE 0

\* The sum of axis a over the delta records of lines 1..n filed under key.
RECURSIVE DeltaLinesSum(_, _, _, _)
DeltaLinesSum(lines, n, key, a) ==
    IF n = 0 THEN 0
    ELSE (IF IsDeltaLine(lines, n) /\ DayModelKey(lines[n].day, LineModel(lines, n)) = key
          THEN LineAxis(lines[n], a) ELSE 0)
         + DeltaLinesSum(lines, n - 1, key, a)

SyncKeys == {DayModelKey(d, m) : d \in Days, m \in {M_GPT, M_O1, <<"unknown">>}}

C1_LedgerIsLinesRead ==
    /\ SyncLastLine <= Len(SyncLines)
    /\ synced => SyncLastLine = Len(SyncLines)
    /\ DOMAIN syncState.dailyTotals \subseteq SyncKeys
    /\ \A key \in SyncKeys : \A a \in SumAxes :
          LedgerAxis(key, a) - EmittedAxis(key, a)
              = DeltaLinesSum(SyncLines, SyncLastLine, key, a)

C1_NoChangeAddsNothing == (synced /\ SyncLines' = SyncLines) =>
                              syncState'.dailyTotals = syncState.dailyTotals

\* C1: over runs on a file that only grows by whole lines, the ledger's input,
\* output, cache and thinking under each key are, apart from what the
\* reconciler made of cumulative records, the sums over the delta records of
\* the lines read so far, each counted once; after a run every line is read;
\* and a run on a file whose lines have not changed since the last run leaves
\* the ledger as it was.
C1_EachDeltaRecordOnce == []C1_LedgerIsLinesRead /\ [][C1_NoChangeAddsNothing]_vars

C1_Witness ==
    /\ synced
    /\ Len(SyncLines) = 3
    /\ IsDeltaLine(SyncLines, 1) /\ IsDeltaLine(SyncLines, 3)
    /\ SyncLines[3].model = <<>>
    /\ files[UsagePath].mtimeMs > syncState.fileCursors[UsagePath].lastMtimeMs
    /\ LedgerAxis(DayModelKey("2026-01-01", M_GPT), "input") = 3

\* C2: across runs no axis of a ledger entry decreases and no key is removed.
C2_LedgerMonotone ==
    [][\A key \in DOMAIN syncState.dailyTotals :
          /\ key \in DOMAIN syncState'.dailyTotals
          /\ \A a \in Axes :
                syncState'.dailyTotals[key][a] >= syncState.dailyTotals[key][a]]_vars

\* The cumulative snapshots of the file, in file order, among lines 1..n.
CumulativeLinesUpTo(n) == {i \in 1..n : IsCumulativeLine(SyncLines, i)}

SnapshotsNonDecreasing ==
    \A i, j \in CumulativeLinesUpTo(Len(SyncLines)) :
        i < j => \A a \in Axes : LineAxis(SyncLines[i], a) <= LineAxis(SyncLines[j], a)

LatestSnapshotAxis(a) ==
    LET S == CumulativeLinesUpTo(SyncLastLine)
    IN  IF S = {} THEN 0
        ELSE LineAxis(SyncLines[CHOOSE i \in S : \A j \in S : j <= i], a)

RECURSIVE EmittedTotal(_, _)
EmittedTotal(keys, a) ==
    IF keys = {} THEN 0
    ELSE LET k == CHOOSE x \in keys : TRUE
         IN  emitted[k][a] + EmittedTotal(keys \ {k}, a)

\* C7: for one source and one model whose cumulative snapshots never decrease,
\* whatever day each carries, the deltas emitted for the source sum, on every
\* axis, to at most the latest snapshot.
C7_NoOverCount ==
    SnapshotsNonDecreasing =>
        \A a \in Axes : EmittedTotal(DOMAIN emitted, a) <= LatestSnapshotAxis(a)

(***************************************************************************)
(* SpecMerge: lines 233-238 of runSyncOnce with object identity.  A run    *)
(* reconciles and aggregates a batch of at most MaxBatch records and merges *)
(* the aggregates into the ledger of the state in memory; Reload stores    *)
(* what the run returned and reads it back for the next run.               *)
(***************************************************************************)
MergeRecordSet ==
    {[day |-> "2026-01-01", model |-> M_GPT, tokens |-> [input |-> 2, output |-> 1],
      source |-> "a.jsonl", mode |-> "delta"],
     [day |-> "2026-01-02", model |-> M_GPT, tokens |-> [input |-> 1, cache |-> 3, total |-> 9],
      source |-> "a.jsonl", mode |-> "delta"],
     [day |-> "2026-01-01", model |-> M_O1, tokens |-> [output |-> 4, thinking |-> 1],
      source |-> "a.jsonl", mode |-> "delta"],
     [day |-> "2026-01-01", model |-> M_GPT, tokens |-> [input |-> 5, total |-> 5],
      source |-> "b.jsonl", mode |-> "cumulative"],
     [day |-> "2026-01-01", model |-> M_GPT, tokens |-> [input |-> 3, total |-> 3],
      source |-> "b.jsonl", mode |-> "cumulative"]}

MergeInit ==
    /\ MemIdle
    /\ MergeOthersIdle

RunPipeline ==
    /\ ~memDone
    /\ memRuns < MaxRuns
    /\ \E records \in SeqsUpTo(MergeRecordSet, MaxBatch) :
         \E adjusted \in {applyCumulativeAdjustmentsHeap(memHeap, records,
                                                         memState.cumulativeTotals)} :
           \E aggregatedDelta \in {aggregateUsage(adjusted.records)} :
             \E merged \in {mergeAggregatesHeap(adjusted.heap, memState.dailyTotals,
                                                aggregatedDelta)} :
               /\ memBefore' = [dailyTotals |-> deref(memHeap, memState.dailyTotals),
                                cumulativeTotals |-> deref(memHeap, memState.cumulativeTotals)]
               /\ memCall' = [records |-> records, aggregates |-> aggregatedDelta]
               /\ memHeap' = merged.heap
               /\ memOut' = [dailyTotals |-> merged.next,
                             cumulativeTotals |-> adjusted.cumulative]
    /\ memDone' = TRUE
    /\ UNCHANGED <<memState, memRuns>>
    /\ UNCHANGED mergeOthers

\* A numbering of the keys of a record, the order JSON.parse allocates in.
enumerate(S) ==
    CHOOSE f \in [S -> 1..Cardinality(S)] : \A x, y \in S : f[x] = f[y] => x = y

keyAt(f, i) == CHOOSE k \in DOMAIN f : f[k] = i

\* writeSyncState(nextState) and the readSyncState of the next run: every
\* entry of the state read back is an object of its own.
Reload ==
    /\ memDone
    /\ \E d \in {enumerate(DOMAIN memOut.dailyTotals)} :
         \E c \in {enumerate(DOMAIN memOut.cumulativeTotals)} :
           \E n \in {Cardinality(DOMAIN memOut.dailyTotals)} :
             /\ memHeap' = [i \in 1..(n + Cardinality(DOMAIN memOut.cumulativeTotals)) |->
                              IF i <= n THEN memHeap[memOut.dailyTotals[keyAt(d, i)]]
                              ELSE memHeap[memOut.cumulativeTotals[keyAt(c, i - n)]]]
             /\ memState' = [dailyTotals |-> d,
                             cumulativeTotals |-> [k \in DOMAIN c |-> c[k] + n]]
    /\ memBefore' = NoTotals
    /\ memCall' = [records |-> <<>>, aggregates |-> <<>>]
    /\ memOut' = NoTotals
    /\ memDone' = FALSE
    /\ memRuns' = memRuns + 1
    /\ UNCHANGED mergeOthers

MergeNext == RunPipeline \/ Reload

SpecMerge == MergeInit /\ [][MergeNext]_vars

MergeKeys == {DayModelKey(memCall.aggregates[i].day, memCall.aggregates[i].model) :
                i \in DOMAIN memCall.aggregates}

ReturnedLedger == deref(memHeap, memOut.dailyTotals)

\* The heap model returns the values the value model of mergeAggregates and
\* applyCumulativeAdjustments returns.
HeapAgreesWithValues ==
    memDone =>
        /\ ReturnedLedger = mergeAggregates(memBefore.dailyTotals, memCall.aggregates)
        /\ deref(memHeap, memOut.cumulativeTotals)
             = applyCumulativeAdjustments(memCall.records, memBefore.cumulativeTotals).cumulative

\* C17: mergeAggregates is additive per key: the returned entry of each
\* aggregate's key is the entry the ledger held before the call (all-zero if
\* the key is new) plus the aggregate's five axes, the returned ledger has no
\* other new key, and every other key is returned with the values it had.
C17_MergeIsAdditive ==
    memDone =>
        /\ DOMAIN ReturnedLedger = DOMAIN memBefore.dailyTotals \cup MergeKeys
        /\ \A i \in DOMAIN memCall.aggregates :
             LET aggregate == memCall.aggregates[i]
                 key == DayModelKey(aggregate.day, aggregate.model)
             IN  \A a \in Axes :
                   ReturnedLedger[key][a]
                     = (IF key \in DOMAIN memBefore.dailyTotals
                        THEN memBefore.dailyTotals[key][a] ELSE 0)
                       + OrZero(aggregate.tokens, a)
        /\ \A k \in DOMAIN memBefore.dailyTotals \ MergeKeys :
             ReturnedLedger[k] = memBefore.dailyTotals[k]

\* A merge that adds to a key the ledger had, creates a key and leaves a key.
C17_Witness ==
    /\ memDone
    /\ \E k \in MergeKeys \cap DOMAIN memBefore.dailyTotals :
         /\ memBefore.dailyTotals[k].total > 0
         /\ ReturnedLedger[k].total > memBefore.dailyTotals[k].total
    /\ MergeKeys \ DOMAIN memBefore.dailyTotals # {}
    /\ DOMAIN memBefore.dailyTotals \ MergeKeys # {}

\* C18: after the two calls return, the ledger and the cumulative map that
\* were passed in, and the token objects inside them, hold the values they
\* held before the calls.
C18_ArgumentsUnchanged ==
    memDone =>
        /\ deref(memHeap, memState.dailyTotals) = memBefore.dailyTotals
        /\ deref(memHeap, memState.cumulativeTotals) = memBefore.cumulativeTotals

(***************************************************************************)
(* SpecRun: local-only runs of runSyncOnce while the usage file grows,     *)
(* config.json is damaged and repaired, and state.json is damaged or       *)
(* deleted.                                                                *)
(***************************************************************************)
RunLineSet ==
    {ObjectLine(M_GPT, "2026-01-01", FALSE, "none", [input |-> Num(2), output |-> Num(1)]),
     ObjectLine(M_GPT, "2026-01-02", TRUE, "total", [input |-> Num(2), output |-> Num(1)])}

RunInit ==
    /\ runDisk = AbsentFile
    /\ runConfig = [readable |-> TRUE, usagePath |-> UsagePath, apiBaseUrl |-> FALSE,
                    localOnly |-> FALSE]
    /\ runFiles \in {EmptyMap, [p \in {UsagePath} |-> [lines |-> <<>>, mtimeMs |-> 0]]}
    /\ runClock = 0
    /\ runLast = NoRun
    /\ RunOthersIdle

RunAppendLine(line) ==
    /\ UsagePath \in DOMAIN runFiles
    /\ Len(runFiles[UsagePath].lines) < MaxLines
    /\ runFiles' = [runFiles EXCEPT ![UsagePath] =
                       [lines |-> Append(@.lines, line), mtimeMs |-> @.mtimeMs + 1]]
    /\ UNCHANGED <<runDisk, runConfig, runClock, runLast, runOthers>>

\* config.json is edited into text that is not JSON.
BreakConfig ==
    /\ runConfig.readable
    /\ runConfig' = [runConfig EXCEPT !.readable = FALSE]
    /\ UNCHANGED <<runDisk, runFiles, runClock, runLast, runOthers>>

FixConfig ==
    /\ ~runConfig.readable
    /\ runConfig' = [runConfig EXCEPT !.readable = TRUE]
    /\ UNCHANGED <<runDisk, runFiles, runClock, runLast, runOthers>>

\* state.json is overwritten with text that is not JSON.
CorruptState ==
    /\ runDisk.kind = "json"
    /\ runDisk' = CorruptFile
    /\ UNCHANGED <<runConfig, runFiles, runClock, runLast, runOthers>>

DeleteState ==
    /\ runDisk.kind = "corrupt"
    /\ runDisk' = AbsentFile
    /\ UNCHANGED <<runConfig, runFiles, runClock, runLast, runOthers>>

RunOnce ==
    /\ runClock < MaxRuns
    /\ \E out \in {runSyncOnce(runDisk, <<>>, runConfig, runFiles, runClock + 1, LocalOnlyEnv)} :
         /\ runDisk' = out.disk
         /\ runLast' = [ran |-> TRUE, before |-> runDisk,
                        readable |-> runConfig.readable, out |-> out]
    /\ runClock' = runClock + 1
    /\ UNCHANGED <<runConfig, runFiles, runOthers>>

RunNext ==
    \/ \E line \in RunLineSet : RunAppendLine(line)
    \/ BreakConfig
    \/ FixConfig
    \/ CorruptState
    \/ DeleteState
    \/ RunOnce

SpecRun == RunInit /\ [][RunNext]_vars

\* The last run met a fatal condition: state.json was not JSON, or it could
\* be read and config.json was not JSON.
FatalState == runLast.ran /\ runLast.before.kind = "corrupt"

FatalConfig == runLast.ran /\ runLast.before.kind # "corrupt" /\ ~runLast.readable

AbortedBeforePipeline ==
    /\ runLast.out.result.status = "error"
    /\ ~runLast.out.discovered
    /\ ~runLast.out.parsed

\* C19 as stated: on either fatal condition the run returns status error
\* before discovering or parsing a source and writes nothing to state.json.
C19_Original ==
    (FatalState \/ FatalConfig) =>
        /\ AbortedBeforePipeline
        /\ runLast.out.writes = 0
        /\ runLast.out.disk = runLast.before

\* C19: on either fatal condition the run returns status error before
\* discovering or parsing a source.  When state.json is not JSON nothing is
\* written.  When config.json is not JSON the state is written once, with the
\* cursors, the ledger and the cumulative map as they were read and the
\* description of the last run replaced: lastRunAt is the time of the run,
\* lastStatus is error, lastError is the message returned and lastErrorContext
\* has the code SYNC_CONFIG_READ_FAILED.
C19_FatalRunKeepsLedger ==
    /\ FatalState =>
         /\ AbortedBeforePipeline
         /\ runLast.out.writes = 0
         /\ runLast.out.disk = runLast.before
    /\ FatalConfig =>
         /\ AbortedBeforePipeline
         /\ runLast.out.writes = 1
         /\ runLast.out.disk.kind = "json"
         /\ runLast.out.disk.state = runLast.before.state
         /\ runLast.out.disk.meta.lastRunAt # runLast.before.meta.lastRunAt
         /\ runLast.out.disk.meta.lastStatus = "error"
         /\ runLast.out.disk.meta.lastError = runLast.out.result.message
         /\ runLast.out.disk.meta.lastErrorContext = "SYNC_CONFIG_READ_FAILED"

\* A run with an unreadable config.json on a state that holds a ledger and a
\* cursor from an earlier run.
C19_Witness ==
    /\ FatalConfig
    /\ runLast.before.kind = "json"
    /\ runLast.before.meta.lastStatus = "skipped"
    /\ DOMAIN runLast.before.state.dailyTotals # {}
    /\ UsagePath \in DOMAIN runLast.before.state.fileCursors
    /\ runLast.out.disk.state = runLast.before.state
    /\ runLast.out.disk.meta.lastStatus = "error"

\* A run on a state.json that is not JSON.
C19_CorruptStateReached ==
    /\ FatalState
    /\ runLast.out.writes = 0
    /\ runLast.out.result.message = "Invalid sync state JSON."

(***************************************************************************)
(* SpecSources: parseUsageSources on a list of three usage files that grow *)
(* and are deleted between the calls; the cursors a call returns are the   *)
(* cursors the next call is given.                                         *)
(***************************************************************************)
SourcePaths == <<"a.jsonl", "b.jsonl", "c.json">>

SourceList == [i \in DOMAIN SourcePaths |-> [path |-> SourcePaths[i], kind |-> "file"]]

\* The lines a producer appends: records everywhere, and text that is not
\* JSON in the first file.
SourceLineSet(path) ==
    {ObjectLine(M_GPT, "2026-01-01", FALSE, "none", [input |-> Num(2), output |-> Num(1)])}
    \cup (IF path = SourcePaths[1] THEN {InvalidLine} ELSE {})

SourcesInit ==
    /\ srcFiles \in [{SourcePaths[i] : i \in DOMAIN SourcePaths}
                       -> {[lines |-> <<>>, mtimeMs |-> 0]}]
    /\ srcCursors = EmptyMap
    /\ srcOut = NoParse
    /\ srcDone = FALSE
    /\ SourcesOthersIdle

SourceAppend(path, line) ==
    /\ ~srcDone
    /\ path \in DOMAIN srcFiles
    /\ Len(srcFiles[path].lines) < MaxBatch
    /\ srcFiles' = [srcFiles EXCEPT ![path] =
                       [lines |-> Append(@.lines, line), mtimeMs |-> @.mtimeMs + 1]]
    /\ UNCHANGED <<srcCursors, srcOut, srcDone, sourcesOthers>>

\* The file is removed: statSync throws for its path from now on.
SourceDelete(path) ==
    /\ ~srcDone
    /\ path \in DOMAIN srcFiles
    /\ srcFiles' = [q \in DOMAIN srcFiles \ {path} |-> srcFiles[q]]
    /\ UNCHANGED <<srcCursors, srcOut, srcDone, sourcesOthers>>

ParseSources ==
    /\ ~srcDone
    /\ srcOut' = parseUsageSources(SourceList, srcCursors, srcFiles)
    /\ srcDone' = TRUE
    /\ UNCHANGED <<srcFiles, srcCursors, sourcesOthers>>

StoreCursors ==
    /\ srcDone
    /\ srcCursors' = srcOut.cursors
    /\ srcOut' = NoParse
    /\ srcDone' = FALSE
    /\ UNCHANGED <<srcFiles, sourcesOthers>>

SourcesNext ==
    \/ \E i \in DOMAIN SourcePaths : \E line \in SourceLineSet(SourcePaths[i]) :
         SourceAppend(SourcePaths[i], line)
    \/ \E i \in DOMAIN SourcePaths : SourceDelete(SourcePaths[i])
    \/ ParseSources
    \/ StoreCursors

SpecSources == SourcesInit /\ [][SourcesNext]_vars

AllPaths == {SourcePaths[i] : i \in DOMAIN SourcePaths}

\* The sources whose parse threw in the call that has returned.
FailedPaths == AllPaths \ DOMAIN srcFiles

RecordsFrom(path) == SelectSeq(srcOut.records, LAMBDA r : r.source = path)

WarningsFor(path) == SelectSeq(srcOut.warnings, LAMBDA w : w.path = path)

StoredCursor(cursors, path) == IF path \in DOMAIN cursors THEN cursors[path] ELSE <<>>

\* What parsing the file at path alone, with its stored cursor, returns.
ParsedAlone(path) ==
    parseUsageFileWithCursor(path, srcFiles[path], StoredCursor(srcCursors, path))

\* C20: a source whose parse throws contributes no records and exactly one
\* warning, which starts with its path; the cursor returned for it is the
\* stored one (none if none was stored); and every other source of the list
\* contributes the records, the warnings and the cursor that parsing it alone
\* yields.
C20_FailureIsIsolated ==
    srcDone =>
        /\ \A p \in FailedPaths :
             /\ RecordsFrom(p) = <<>>
             /\ Len(WarningsFor(p)) = 1
             /\ StoredCursor(srcOut.cursors, p) = StoredCursor(srcCursors, p)
        /\ \A q \in DOMAIN srcFiles :
             /\ RecordsFrom(q) = ParsedAlone(q).records
             /\ WarningsFor(q) = pathWarnings(q, ParsedAlone(q).warnings)
             /\ StoredCursor(srcOut.cursors, q)
                  = (IF ParsedAlone(q).cursor # <<>> THEN ParsedAlone(q).cursor
                     ELSE StoredCursor(srcCursors, q))

\* The second file of the list was read by an earlier call and has been
\* deleted; the files before and after it yield records in the same call.
C20_Witness ==
    /\ srcDone
    /\ FailedPaths = {"b.jsonl"}
    /\ "b.jsonl" \in DOMAIN srcCursors
    /\ srcCursors["b.jsonl"].lastLine > 0
    /\ srcOut.cursors["b.jsonl"] = srcCursors["b.jsonl"]
    /\ WarningsFor("b.jsonl") = <<[path |-> "b.jsonl", line |-> 0, msg |-> ENOENT]>>
    /\ RecordsFrom("a.jsonl") # <<>>
    /\ RecordsFrom("c.json") # <<>>

(***************************************************************************)
(* SpecScan: one usage file under a producer that appends lines, writes    *)
(* the file again unchanged, or cuts it down, and a reader that scans it   *)
(* with the stored cursor and then stores the cursor the scan returned.    *)
(* The file is taken not to change between a scan's statSync and the end   *)
(* of its read.                                                            *)
(***************************************************************************)
ScanLineSet ==
    {BlankLine,
     InvalidLine,
     ObjectLine(M_O1, "", FALSE, "none", NoFields),
     ObjectLine(<<>>, "2026-01-01", TRUE, "last", [input |-> Str(1)]),
     ObjectLine(M_GPT, "2026-01-01", FALSE, "none", [input |-> Num(2), output |-> Num(1)])}

ScanInit ==
    /\ scanPath \in {"a.jsonl", "c.json"}
    /\ scanFile = [lines |-> <<>>, mtimeMs |-> 0]
    /\ scanCursor = <<>>
    /\ scanOut = NoScan
    /\ scanDone = FALSE
    /\ ScanOthersIdle

\* The producer may still change the file.
ScanMayChange == ~scanDone /\ scanFile.mtimeMs < MaxLines + MaxTouch

ScanAppend(line) ==
    /\ ScanMayChange
    /\ Len(scanFile.lines) < MaxLines
    /\ scanFile' = [lines |-> Append(scanFile.lines, line), mtimeMs |-> scanFile.mtimeMs + 1]
    /\ UNCHANGED <<scanPath, scanCursor, scanOut, scanDone, scanOthers>>

ScanTouch ==
    /\ ScanMayChange
    /\ scanFile' = [scanFile EXCEPT !.mtimeMs = @ + 1]
    /\ UNCHANGED <<scanPath, scanCursor, scanOut, scanDone, scanOthers>>

\* The file is cut down to fewer bytes: to its first lines, or to one new line.
ScanTruncate(lines) ==
    /\ ScanMayChange
    /\ FileSize(lines) < FileSize(scanFile.lines)
    /\ scanFile' = [lines |-> lines, mtimeMs |-> scanFile.mtimeMs + 1]
    /\ UNCHANGED <<scanPath, scanCursor, scanOut, scanDone, scanOthers>>

Scan ==
    /\ ~scanDone
    /\ scanOut' = parseUsageFileWithCursor(scanPath, scanFile, scanCursor)
    /\ scanDone' = TRUE
    /\ UNCHANGED <<scanPath, scanFile, scanCursor, scanOthers>>

\* nextCursors[source.path] = result.cursor, persisted with the state.
StoreCursor ==
    /\ scanDone
    /\ scanCursor' = scanOut.cursor
    /\ scanOut' = NoScan
    /\ scanDone' = FALSE
    /\ UNCHANGED <<scanPath, scanFile, scanOthers>>

ScanNext ==
    \/ \E line \in ScanLineSet : ScanAppend(line)
    \/ ScanTouch
    \/ \E lines \in {SubSeq(scanFile.lines, 1, n) : n \in 0..Len(scanFile.lines)}
                    \cup {<<line>> : line \in ScanLineSet} : ScanTruncate(lines)
    \/ Scan
    \/ StoreCursor

SpecScan == ScanInit /\ [][ScanNext]_vars

(***************************************************************************)
(* Properties of a scan (SpecScan).  In a state with scanDone, scanFile    *)
(* and scanCursor are the file and the cursor the scan was given.          *)
(***************************************************************************)
ScanStats == [size |-> FileSize(scanFile.lines), mtimeMs |-> scanFile.mtimeMs]

ScanSameSizeAndMtime ==
    /\ scanCursor # <<>>
    /\ scanCursor.lastSize = ScanStats.size
    /\ scanCursor.lastMtimeMs = ScanStats.mtimeMs

\* C13: when the file's size and modification time both equal the stored
\* cursor's, a scan (line-delimited or whole-file) returns no records, no
\* warnings and the very cursor it was given, and does not read the content.
C13_SkipWhenUnchanged ==
    (scanDone /\ ScanSameSizeAndMtime) =>
        scanOut = [records |-> <<>>, warnings |-> <<>>, cursor |-> scanCursor,
                   opened |-> FALSE]

C13_Witness ==
    /\ scanDone
    /\ ScanSameSizeAndMtime
    /\ scanPath = "a.jsonl"
    /\ "lastModel" \in DOMAIN scanCursor
    /\ scanCursor.lastLine = 2
    /\ \E i \in DOMAIN scanFile.lines : IsRecordLine(scanFile.lines, i)

\* The usage records the lines from..Len(lines) hold, in file order, a line
\* without a model taking the nearest explicit model above it from line
\* `from` on, else `carried`, else "unknown".
RECURSIVE RecordsOfLines(_, _, _, _)
RecordsOfLines(lines, from, carried, path) ==
    IF from > Len(lines) THEN <<>>
    ELSE LET line == lines[from]
             model == IF line.kind = "object" /\ line.model # <<>> THEN line.model
                      ELSE carried
             numeric == {a \in DOMAIN line.fields : line.fields[a].t \in {"number", "string"}}
         IN  (IF IsRecordLine(lines, from)
              THEN <<[day |-> line.day,
                      model |-> IF model = <<>> THEN <<"unknown">> ELSE model,
                      tokens |-> [a \in numeric |-> line.fields[a].v],
                      source |-> path,
                      mode |-> IF line.usage = "total" THEN "cumulative" ELSE "delta"]>>
              ELSE <<>>)
             \o RecordsOfLines(lines, from + 1, model, path)

DayAndTokens(records) ==
    [i \in DOMAIN records |-> [day |-> records[i].day, tokens |-> records[i].tokens]]

ScanGrown ==
    /\ scanDone
    /\ scanPath = "a.jsonl"
    /\ scanCursor # <<>>
    /\ ScanStats.size >= scanCursor.lastSize

\* C14: when a line-delimited file is not smaller than the stored cursor says,
\* the records a scan returns are those of the lines numbered above the
\* cursor's lastLine, in order, and every warning that names a line names one
\* above lastLine.
C14_OnlyLinesAfterCursor ==
    ScanGrown =>
        /\ DayAndTokens(scanOut.records) =
               DayAndTokens(RecordsOfLines(scanFile.lines, scanCursor.lastLine + 1,
                                           <<>>, scanPath))
        /\ \A i \in DOMAIN scanOut.warnings :
               scanOut.warnings[i].line = 0 \/ scanOut.warnings[i].line > scanCursor.lastLine

C14_Witness ==
    /\ ScanGrown
    /\ scanCursor.lastLine = 2
    /\ Len(scanFile.lines) = 3
    /\ IsRecordLine(scanFile.lines, 1)
    /\ scanFile.lines[2].kind = "invalid"
    /\ IsRecordLine(scanFile.lines, 3)
    /\ Len(scanOut.records) = 1
    /\ scanOut.warnings = <<>>

ScanShrank ==
    /\ scanDone
    /\ scanPath = "a.jsonl"
    /\ scanCursor # <<>>
    /\ ScanStats.size < scanCursor.lastSize

ShrankWarning == [line |-> 0, msg |-> "File size shrank; resetting cursor."]

C16_CursorFollowsFile ==
    (scanDone /\ scanPath = "a.jsonl" /\ scanOut.opened) =>
        /\ scanOut.cursor.lastLine = Len(scanFile.lines)
        /\ scanOut.cursor.lastSize = ScanStats.size
        /\ scanOut.cursor.lastMtimeMs = ScanStats.mtimeMs
        /\ ~parseJsonLinesFileWithCursor(scanPath, scanFile, scanOut.cursor).opened

C16_Witness ==
    /\ scanDone
    /\ scanPath = "a.jsonl"
    /\ scanOut.opened
    /\ scanOut.records = <<>>
    /\ scanCursor # <<>>
    /\ scanCursor.lastLine = 2
    /\ scanOut.cursor.lastLine = 3
    /\ scanOut.cursor.lastMtimeMs > scanCursor.lastMtimeMs

(***************************************************************************)
(* SpecRate: getRateLimitStatus applied to every timestamp string and      *)
(* every time of the call up to MaxTime.                                   *)
(***************************************************************************)
RateStrings ==
    {NoString, EmptyString, NotADate}
    \cup {IsoString(t) : t \in 0..(MAX_TIME_VALUE + 1)}

RateInit ==
    /\ rateLast \in RateStrings
    /\ rateNow \in 0..MaxTime
    /\ rateOut = NoStatus
    /\ rateDone = FALSE
    /\ RateOthersIdle

CheckRateLimit ==
    /\ ~rateDone
    /\ rateOut' = getRateLimitStatus(rateLast, rateNow)
    /\ rateDone' = TRUE
    /\ UNCHANGED <<rateLast, rateNow, rateOthers>>

RateNext == CheckRateLimit

SpecRate == RateInit /\ [][RateNext]_vars

\* lastSuccessAt parses as a timestamp.
RateParses == ~Falsy(rateLast) /\ DateParse(rateLast) # NaN

\* C21: the call reports limited exactly when lastSuccessAt parses as a
\* timestamp and now is before that timestamp plus 15 minutes, and then
\* nextAllowedAt is that timestamp plus 15 minutes; when lastSuccessAt is
\* missing or does not parse it reports not limited and no nextAllowedAt.
C21_LimitedWithinInterval ==
    rateDone =>
        /\ ~rateOut.threw
        /\ rateOut.limited = (RateParses /\ rateNow < rateLast.t + SYNC_INTERVAL_MS)
        /\ RateParses => rateOut.nextAllowedAt = IsoString(rateLast.t + SYNC_INTERVAL_MS)
        /\ ~RateParses => rateOut.nextAllowedAt = NoString

\* The statement of C21 holds of every call whose lastSuccessAt plus 15
\* minutes is a time value a Date can hold.
RateWithinDateRange ==
    (rateDone /\ (RateParses => rateLast.t + SYNC_INTERVAL_MS <= MAX_TIME_VALUE)) =>
        /\ ~rateOut.threw
        /\ rateOut.limited = (RateParses /\ rateNow < rateLast.t + SYNC_INTERVAL_MS)
        /\ RateParses => rateOut.nextAllowedAt = IsoString(rateLast.t + SYNC_INTERVAL_MS)
        /\ ~RateParses => rateOut.nextAllowedAt = NoString

(***************************************************************************)
(* SpecUpload: runs of runSyncOnce one after the other while the clock     *)
(* advances and the usage file grows.  Each run finds its own options,     *)
(* config, auth token and API answers.                                     *)
(***************************************************************************)
UpLine == ObjectLine(M_GPT, "2026-01-01", FALSE, "none", [input |-> Num(2), output |-> Num(1)])

\* The minutes that pass between two events.
TickSteps == {7, 8}

UploadInit ==
    /\ upDisk = AbsentFile
    /\ upQueue = <<>>
    /\ upFiles \in {EmptyMap, [p \in {UsagePath} |-> [lines |-> <<>>, mtimeMs |-> 0]]}
    /\ upNow = 0
    /\ upRuns = 0
    /\ upForced = FALSE
    /\ upLast = NoUpload
    /\ UploadOthersIdle

UpTick(d) ==
    /\ upRuns < MaxRuns
    /\ upNow + d <= MaxClock
    /\ upNow' = upNow + d
    /\ UNCHANGED <<upDisk, upQueue, upFiles, upRuns, upForced, upLast, uploadOthers>>

UpAppendLine ==
    /\ upRuns < MaxRuns
    /\ UsagePath \in DOMAIN upFiles
    /\ Len(upFiles[UsagePath].lines) < MaxBatch
    /\ upFiles' = [upFiles EXCEPT ![UsagePath] =
                      [lines |-> Append(@.lines, UpLine), mtimeMs |-> @.mtimeMs + 1]]
    /\ UNCHANGED <<upDisk, upQueue, upNow, upRuns, upForced, upLast, uploadOthers>>

\* Invocations of the tool that overlapped one another failed to upload and
\* queued their payloads, generated at different times: several before the
\* first run, one into an empty queue later.
UpOtherEnqueue ==
    /\ upRuns < MaxRuns
    /\ Len(upQueue) < (IF upRuns = 0 THEN MaxBatch ELSE 1)
    /\ upQueue' = enqueuePayload(upQueue,
                                 [generatedAt |-> Len(upQueue) - MaxBatch,
                                  dailyTotals |-> EmptyMap],
                                 "Request failed.", upNow).file
    /\ UNCHANGED <<upDisk, upFiles, upNow, upRuns, upForced, upLast, uploadOthers>>

\* The time of the last successful upload state.json records, or NaN.
RecordedSuccess(disk) == DateParse(readSyncState(disk).meta.lastSuccessAt)

UpRun(config, env) ==
    /\ upRuns < MaxRuns
    /\ \E out \in {runSyncOnce(upDisk, upQueue, config, upFiles, upNow, env)} :
         /\ upDisk' = out.disk
         /\ upQueue' = out.queue
         /\ upLast' = [ran |-> TRUE, before |-> upDisk, queue |-> upQueue, now |-> upNow,
                       config |-> config, env |-> env,
                       prevSuccess |-> RecordedSuccess(upDisk), out |-> out]
    /\ upRuns' = upRuns + 1
    /\ upForced' = (upForced \/ env.options.force)
    /\ UNCHANGED <<upFiles, upNow, uploadOthers>>

UpConfig(readable, apiBaseUrl) ==
    [readable |-> readable, usagePath |-> UsagePath, apiBaseUrl |-> apiBaseUrl,
     localOnly |-> FALSE]

UpEnv(force, localOnly, auth, okCount, failStatus) ==
    [options |-> [force |-> force, localOnly |-> localOnly], auth |-> auth,
     BRAG_LOCAL_ONLY |-> "", net |-> [okCount |-> okCount, failStatus |-> failStatus]]

\* What a run may find: a config that is not JSON, --local-only, no API base
\* URL, no valid token, or all it takes to upload, with every number of
\* requests the API answers before it fails one.
UploadNext ==
    \/ \E d \in TickSteps : UpTick(d)
    \/ UpAppendLine
    \/ UpOtherEnqueue
    \/ UpRun(UpConfig(FALSE, TRUE), UpEnv(FALSE, FALSE, "valid", 0, 0))
    \/ UpRun(UpConfig(TRUE, TRUE), UpEnv(FALSE, TRUE, "valid", 0, 0))
    \/ UpRun(UpConfig(TRUE, FALSE), UpEnv(FALSE, FALSE, "valid", 0, 0))
    \/ UpRun(UpConfig(TRUE, TRUE), UpEnv(FALSE, FALSE, "missing", 0, 0))
    \/ \E force \in BOOLEAN :
         \/ UpRun(UpConfig(TRUE, TRUE), UpEnv(force, FALSE, "valid", Len(upQueue) + 1, 0))
         \/ \E okCount \in 0..Len(upQueue) : \E failStatus \in {0, 401} :
              UpRun(UpConfig(TRUE, TRUE), UpEnv(force, FALSE, "valid", okCount, failStatus))

SpecUpload == UploadInit /\ [][UploadNext]_vars

\* The last run started without --force less than 15 minutes after the
\* lastSuccessAt it read from state.json.
WithinWindow ==
    /\ upLast.ran
    /\ ~upLast.env.options.force
    /\ upLast.prevSuccess # NaN
    /\ upLast.now < upLast.prevSuccess + SYNC_INTERVAL_MS

\* The last run got as far as lines 299-318, where it is decided whether to
\* upload.
ReachedUploadDecision == upLast.ran /\ upLast.out.parsed

\* The last run found nothing but the rate limit in the way of an upload.
MayUpload ==
    /\ ReachedUploadDecision
    /\ ~upLast.env.options.localOnly /\ ~upLast.config.localOnly
    /\ upLast.config.apiBaseUrl
    /\ upLast.env.auth = "valid"

\* C22 as stated: a run without --force that starts less than 15 minutes
\* after the persisted lastSuccessAt makes no upload request and ends with
\* status skipped.
C22_Original ==
    WithinWindow => /\ upLast.out.posts = <<>>
                    /\ upLast.out.result.status = "skipped"

\* C22: a run without --force that starts less than 15 minutes after the
\* persisted lastSuccessAt makes no upload request, neither of a queued
\* payload nor of the latest one, and ends with status skipped if it got as
\* far as the upload decision (a run that cannot read its config or finds no
\* usage files ends with status error); as long as no run was forced, a run
\* that records a successful upload starts at least 15 minutes after the
\* previous one that did; and a run with --force that nothing but the rate
\* limit could stop makes an upload request.
C22_RateLimit ==
    /\ WithinWindow => /\ upLast.out.posts = <<>>
                       /\ ReachedUploadDecision => upLast.out.result.status = "skipped"
    /\ (/\ upLast.ran /\ ~upForced
        /\ upLast.out.result.status = "success"
        /\ upLast.prevSuccess # NaN)
          => upLast.now >= upLast.prevSuccess + SYNC_INTERVAL_MS
    /\ (MayUpload /\ upLast.env.options.force)
          => /\ upLast.out.posts # <<>>
             /\ upLast.out.result.status \in {"success", "error"}

\* A run inside the window with payloads in the queue and a valid token was
\* skipped as rate limited.
C22_Witness ==
    /\ WithinWindow /\ MayUpload
    /\ Len(upLast.queue) > 0
    /\ upLast.out.result = [status |-> "skipped", message |-> "Rate limited.",
                            recordsParsed |-> upLast.out.result.recordsParsed]

\* A forced run inside the window uploaded, and an unforced run recorded a
\* second success 15 minutes or more after the first.
C22_ForcedInsideWindow ==
    /\ MayUpload /\ upLast.env.options.force
    /\ upLast.prevSuccess # NaN
    /\ upLast.now < upLast.prevSuccess + SYNC_INTERVAL_MS
    /\ upLast.out.result.status = "success"

C22_SecondSuccess ==
    /\ upLast.ran /\ ~upForced
    /\ upLast.prevSuccess # NaN
    /\ upLast.out.result.status = "success"

\* What the run about to start would do if nothing stood in the way of an
\* upload and the API accepted every request.
UploadingRun ==
    runSyncOnce(upDisk, upQueue, UpConfig(TRUE, TRUE), upFiles, upNow,
                UpEnv(TRUE, FALSE, "valid", Len(upQueue) + 1, 0))

\* The ledger, cursors and snapshots lines 225-238 compute from state.json
\* and the usage files as they are.
PipelineState ==
    nextSyncState(readSyncState(upDisk).state,
                  syncPipeline(readSyncState(upDisk).state,
                               discoverUsageSources(UsagePath, upFiles), upFiles))

\* C23: a run that reaches parsing and ends skipped writes the dailyTotals
\* with the newly parsed deltas merged in, and the fileCursors and
\* cumulativeTotals of this parse, exactly as an uploading run started in
\* its place would.
C23_SkippedRunAccumulates ==
    [][(upRuns' = upRuns + 1 /\ upLast'.out.parsed
        /\ upLast'.out.result.status = "skipped")
          => /\ upDisk'.kind = "json"
             /\ upDisk'.state = PipelineState
             /\ upDisk'.state = UploadingRun.disk.state
             /\ UploadingRun.result.status = "success"]_vars

\* A skipped run parsed new records and wrote a ledger that differs from the
\* one it read, which was not empty.
C23_Witness ==
    /\ upLast.ran /\ upLast.out.parsed
    /\ upLast.out.result.status = "skipped"
    /\ upLast.out.result.recordsParsed > 0
    /\ readSyncState(upLast.before).state.dailyTotals # EmptyMap
    /\ upLast.out.disk.state.dailyTotals # readSyncState(upLast.before).state.dailyTotals
    /\ upLast.out.disk.state.fileCursors # readSyncState(upLast.before).state.fileCursors

\* The last run was allowed to upload: nothing stood in the way, the rate
\* limit included.
AllowedToUpload ==
    /\ MayUpload
    /\ \/ upLast.env.options.force
       \/ upLast.prevSuccess = NaN
       \/ upLast.now >= upLast.prevSuccess + SYNC_INTERVAL_MS

\* The payloads queue.json held when the last run started, oldest first.
QueuedPayloads == [i \in 1..Len(upLast.queue) |-> upLast.queue[i].payload]

\* The requests of the last run: what was posted, in order.
PostedPayloads == [i \in 1..Len(upLast.out.posts) |-> upLast.out.posts[i].payload]

PostedKinds == [i \in 1..Len(upLast.out.posts) |-> upLast.out.posts[i].kind]

LatestPosted == \E i \in 1..Len(upLast.out.posts) : PostedKinds[i] = "latest"

\* The API failed the request for one of the queued payloads.
QueuedPayloadFailed == upLast.env.net.okCount < Len(upLast.queue)

\* C25: a run that is allowed to upload posts the queued payloads one after
\* another in the order of the queue, oldest first, up to the first that
\* fails; the latest payload is posted after all of them, and only if every
\* queued payload was accepted; if a queued payload fails the run ends with
\* status error, the latest payload is not posted and lastSuccessAt stays
\* what it was.
C25_QueueFlushedFirst ==
    AllowedToUpload =>
        /\ \A i \in 1..Len(upLast.out.posts) :
             IF i <= Len(upLast.queue)
             THEN PostedKinds[i] = "queued" /\ PostedPayloads[i] = QueuedPayloads[i]
             ELSE /\ PostedKinds[i] = "latest"
                  /\ i = Len(upLast.queue) + 1
                  /\ PostedPayloads[i].generatedAt = upLast.now
        /\ LatestPosted <=> ~QueuedPayloadFailed
        /\ QueuedPayloadFailed =>
             /\ Len(upLast.out.posts) = upLast.env.net.okCount + 1
             /\ upLast.out.result.status = "error"
             /\ upLast.out.disk.meta.lastStatus = "error"
             /\ upLast.out.disk.meta.lastSuccessAt
                  = readSyncState(upLast.before).meta.lastSuccessAt

\* Two payloads were queued; the first was accepted, the second failed, and
\* the run ended there.
C25_Witness ==
    /\ AllowedToUpload
    /\ Len(upLast.queue) = 2
    /\ upLast.env.net.okCount = 1
    /\ PostedKinds = <<"queued", "queued">>
    /\ upLast.out.result.status = "error"

\* Two payloads were queued; both were accepted and the latest one followed.
C25_AllFlushed ==
    /\ AllowedToUpload
    /\ Len(upLast.queue) = 2
    /\ PostedKinds = <<"queued", "queued", "latest">>
    /\ upLast.out.result.status = "success"

\* Queued payload i of the last run was accepted by the API.
PostedSuccessfully(i) ==
    i <= Len(upLast.out.posts) /\ i <= upLast.env.net.okCount

\* queue.json after the last run holds the payload of item i of the queue
\* the run found.
StillQueued(i) ==
    \E j \in 1..Len(upLast.out.queue) :
        upLast.out.queue[j].payload = upLast.queue[i].payload

\* C35: every payload that was in queue.json when a run started either was
\* posted successfully by the run or is still in queue.json after it (the
\* queue is below its bound of 20); when the flush stops at a failing item,
\* that item, with attempts incremented, and every item behind it are still
\* queued.
C35_NoQueuedPayloadLost ==
    upLast.ran =>
        /\ \A i \in 1..Len(upLast.queue) : PostedSuccessfully(i) \/ StillQueued(i)
        /\ (AllowedToUpload /\ QueuedPayloadFailed) =>
             \E j \in 1..Len(upLast.out.queue) :
                 /\ upLast.out.queue[j].payload = upLast.queue[upLast.env.net.okCount + 1].payload
                 /\ upLast.out.queue[j].attempts = upLast.queue[upLast.env.net.okCount + 1].attempts + 1

\* The item the flush stopped at is kept, with attempts incremented, and is
\* the only item left; the items the API accepted are gone.
FailedItemAloneKept ==
    (upLast.ran /\ AllowedToUpload /\ QueuedPayloadFailed) =>
        /\ Len(upLast.out.queue) = 1
        /\ upLast.out.queue[1].payload = upLast.queue[upLast.env.net.okCount + 1].payload
        /\ upLast.out.queue[1].attempts = upLast.queue[upLast.env.net.okCount + 1].attempts + 1

\* The only payloads a run removes without posting them are those queued
\* behind the item its flush stopped at.
LostOnlyBehindFailure ==
    upLast.ran =>
        \A i \in 1..Len(upLast.queue) :
            \/ PostedSuccessfully(i)
            \/ StillQueued(i)
            \/ AllowedToUpload /\ QueuedPayloadFailed /\ i > upLast.env.net.okCount + 1

\* Two payloads were queued, the first failed and the second is gone.
QueuedPayloadDropped ==
    /\ upLast.ran
    /\ AllowedToUpload
    /\ Len(upLast.queue) = 2
    /\ upLast.env.net.okCount = 0
    /\ ~PostedSuccessfully(2)
    /\ ~StillQueued(2)

(***************************************************************************)
(* queue.json under a sequence of enqueuePayload and updateQueue calls.     *)
(* qOffered is what the file would hold if nothing were ever evicted.       *)
(***************************************************************************)
QueueInit ==
    /\ qFile = <<>>
    /\ qOffered = <<>>
    /\ qCount = 0
    /\ qUpdates = 0
    /\ QueueOthersIdle

\* A run fails to upload its payload: the n-th payload enqueued is generated
\* and enqueued at time n.
Enqueue ==
    /\ qCount < MaxEnqueued
    /\ \E n \in {qCount + 1} :
       \E item \in {[generatedAt |-> n, dailyTotals |-> EmptyMap]} :
         /\ qFile' = enqueuePayload(qFile, item, "Request failed.", n).file
         /\ qOffered' = enqueuePayload(qOffered, item, "Request failed.", n).queue
         /\ qCount' = n
    /\ UNCHANGED <<qUpdates, queueOthers>>

\* sync.ts:369-375 after a flush: the item that failed is written back with
\* one more attempt, or nothing is when every item was accepted.
UpdateFailed(i) ==
    /\ qUpdates < MaxRuns
    /\ i \in 1..Len(readQueue(qFile))
    /\ \E remaining \in {<<[readQueue(qFile)[i] EXCEPT !.attempts = @ + 1,
                                                       !.lastAttemptAt = qCount]>>} :
         /\ qFile' = updateQueue(remaining)
         /\ qOffered' = remaining
    /\ qUpdates' = qUpdates + 1
    /\ UNCHANGED <<qCount, queueOthers>>

UpdateFlushed ==
    /\ qUpdates < MaxRuns
    /\ Len(readQueue(qFile)) > 0
    /\ qFile' = updateQueue(<<>>)
    /\ qOffered' = <<>>
    /\ qUpdates' = qUpdates + 1
    /\ UNCHANGED <<qCount, queueOthers>>

QueueNext ==
    \/ Enqueue
    \/ \E i \in 1..MAX_QUEUE_SIZE : UpdateFailed(i)
    \/ UpdateFlushed

SpecQueue == QueueInit /\ [][QueueNext]_vars

\* C24: queue.json never holds more than 20 items; it holds the items
\* offered since the last updateQueue, all of them when they are 20 or fewer
\* and otherwise the 20 enqueued last, in the order they were enqueued.
C24_QueueBounded ==
    /\ Len(qFile) <= 20
    /\ Len(qFile) = IF Len(qOffered) <= 20 THEN Len(qOffered) ELSE 20
    /\ \A i \in 1..Len(qFile) : qFile[i] = qOffered[Len(qOffered) - Len(qFile) + i]
    /\ \A i \in 1..Len(qFile) : \A j \in 1..Len(qFile) :
         i < j => qFile[i].createdAt < qFile[j].createdAt

\* More than 20 payloads were offered and the oldest is gone.
C24_Witness ==
    /\ Len(qOffered) > 20
    /\ Len(qFile) = 20
    /\ qFile[1] # qOffered[1]
    /\ qFile[20].createdAt = qCount

(***************************************************************************)
(* One call of postSyncPayloadWithRetry, request by request.  rtRequests    *)
(* counts the calls of postSyncPayload.                                     *)
(***************************************************************************)
RetryInit ==
    /\ rtMax \in 0..MaxAttempts
    /\ rtAttempt = 0
    /\ rtRequests = 0
    /\ rtHasLast = FALSE
    /\ rtLast = NoResponse
    /\ rtWait = 0
    /\ rtPc = "loop"
    /\ rtResult = withAttempts(NoResponse, 0)
    /\ RetryOthersIdle

\* Lines 216-229: one request and what is decided on its response.
Request(response) ==
    /\ rtPc = "loop"
    /\ rtAttempt < rtMax
    /\ rtAttempt' = rtAttempt + 1
    /\ rtRequests' = rtRequests + 1
    /\ IF response.ok
       THEN /\ rtPc' = "done"
            /\ rtResult' = withAttempts(response, rtAttempt')
            /\ UNCHANGED <<rtHasLast, rtLast>>
       ELSE /\ rtHasLast' = TRUE
            /\ rtLast' = response
            /\ IF ~isRetryableStatus(response.status)
               THEN /\ rtPc' = "done"
                    /\ rtResult' = withAttempts(response, rtAttempt')
               ELSE IF rtAttempt' >= rtMax
               THEN /\ rtPc' = "done"
                    /\ rtResult' = retriesExhausted(TRUE, response, rtAttempt')
               ELSE /\ rtPc' = "sleep"
                    /\ UNCHANGED rtResult
    /\ UNCHANGED <<rtMax, rtWait, retryOthers>>

\* Lines 230-232: the wait before the next request.
Sleep(jitter) ==
    /\ rtPc = "sleep"
    /\ rtWait' = retryDelay(rtAttempt, DEFAULT_RETRY_BASE_DELAY_MS,
                            DEFAULT_RETRY_MAX_DELAY_MS) + jitter
    /\ rtPc' = "loop"
    /\ UNCHANGED <<rtMax, rtAttempt, rtRequests, rtHasLast, rtLast, rtResult, retryOthers>>

\* Line 216 false on entry: maxAttempts is 0 and no request is made.
NoAttempt ==
    /\ rtPc = "loop"
    /\ rtAttempt >= rtMax
    /\ rtPc' = "done"
    /\ rtResult' = retriesExhausted(rtHasLast, rtLast, rtAttempt)
    /\ UNCHANGED <<rtMax, rtAttempt, rtRequests, rtHasLast, rtLast, rtWait, retryOthers>>

RetryNext ==
    \/ \E response \in postSyncPayloadResults : Request(response)
    \/ \E jitter \in Jitters : Sleep(jitter)
    \/ NoAttempt

\* Every request ends (the fetch is aborted after the timeout) and so does
\* every sleep.
SpecRetry == RetryInit /\ [][RetryNext]_vars /\ WF_vars(RetryNext)

\* The wait the claim gives for the retry after the k-th request, without
\* the jitter.
WaitAfter(k) == IF k = 1 THEN 1000
                ELSE IF k = 2 THEN 2000
                ELSE IF k = 3 THEN 4000
                ELSE 8000

RetriedStatus(status) == status \in {0, 408, 429} \/ status >= 500

RetrySafe ==
    /\ rtRequests <= rtMax
    /\ rtRequests = rtAttempt
    /\ rtPc = "done" => rtResult.attempts = rtRequests
    /\ (rtPc = "done" /\ rtResult.ok) => rtResult.status = 200
    /\ (rtPc # "done" /\ rtRequests > 0) => (rtHasLast /\ ~rtLast.ok)
    /\ (rtPc # "done" /\ rtRequests > 0) => RetriedStatus(rtLast.status)
    /\ (rtHasLast /\ ~RetriedStatus(rtLast.status))
          => /\ rtPc = "done"
             /\ rtResult = withAttempts(rtLast, rtRequests)
    /\ (rtPc = "done" /\ ~rtResult.ok /\ RetriedStatus(rtResult.status))
          => rtRequests = rtMax
    /\ (rtPc = "loop" /\ rtRequests > 0)
          => /\ rtWait >= WaitAfter(rtRequests)
             /\ rtWait < WaitAfter(rtRequests) + 250

\* C26: postSyncPayloadWithRetry returns, after at most maxAttempts requests;
\* it returns at the first ok response; it makes another request only after
\* a response without HTTP status or with status 408, 429 or 500 and above,
\* and returns any other failure at once; a failure that is retryable is
\* returned only when maxAttempts requests were made; the wait after the
\* k-th request is min(8000, 1000 * 2^(k-1)) ms plus less than 250 ms; and
\* the attempts returned are the requests made.
C26_RetryProtocol == []RetrySafe /\ <>(rtPc = "done")

\* With the default of 3 attempts, two retryable failures were waited out
\* and the third request was answered 503: the call gave up with attempts 3.
C26_Witness ==
    /\ rtMax = DEFAULT_RETRY_ATTEMPTS
    /\ rtPc = "done"
    /\ rtRequests = 3
    /\ rtWait >= 2000
    /\ rtResult = [ok |-> FALSE, status |-> 503, error |-> "Request failed.",
                   attempts |-> 3]

\* The wait reached the cap of 8 seconds.
C26_CapReached == rtPc = "loop" /\ rtRequests = 5 /\ rtWait = 8249

(***************************************************************************)
(* brag sync --watch: runWatch (sync.ts:485-516).  A run reads the clock    *)
(* when it starts and takes some minutes; the loop then reads state.json    *)
(* and sleeps for the delay computeNextRun gives.                           *)
(***************************************************************************)
WatchFiles == [p \in {UsagePath} |-> [lines |-> <<UpLine>>, mtimeMs |-> 1]]

WatchInit ==
    /\ wtDisk = AbsentFile
    /\ wtQueue = <<>>
    /\ wtNow = 0
    /\ wtPc = "run"
    /\ wtRuns = 0
    /\ wtPrevStart = 0
    /\ wtLastStart = 0
    /\ wtLastStatus = ""
    /\ wtDelay = 0
    /\ WatchOthersIdle

\* Line 490: await runSyncOnce(options); the run ends took minutes after it
\* started.
WatchRun(config, env, took) ==
    /\ wtPc = "run"
    /\ wtRuns < MaxWatchRuns
    /\ \E out \in {runSyncOnce(wtDisk, wtQueue, config, WatchFiles, wtNow, env)} :
         /\ wtDisk' = out.disk
         /\ wtQueue' = out.queue
         /\ wtLastStatus' = out.result.status
    /\ wtPrevStart' = wtLastStart
    /\ wtLastStart' = wtNow
    /\ wtRuns' = wtRuns + 1
    /\ wtNow' = wtNow + took
    /\ wtPc' = "sleep"
    /\ UNCHANGED <<wtDelay, watchOthers>>

\* Lines 503-514: the base is read from state.json and the loop sleeps.
WatchSleep(jitter) ==
    /\ wtPc = "sleep"
    /\ \E next \in {computeNextRun(watchBase(wtDisk, wtNow), wtNow, jitter)} :
         /\ ~next.threw
         /\ wtDelay' = next.delayMs
         /\ wtNow' = wtNow + next.delayMs
    /\ wtPc' = "run"
    /\ UNCHANGED <<wtDisk, wtQueue, wtRuns, wtPrevStart, wtLastStart, wtLastStatus,
                   watchOthers>>

\* The runs of one loop share the options of the command line; what varies
\* is whether the API accepts the upload and whether config.json is readable.
WatchNext ==
    \/ \E took \in 0..MaxRunTime :
         \/ WatchRun(UpConfig(TRUE, TRUE), UpEnv(FALSE, FALSE, "valid", Len(wtQueue) + 1, 0), took)
         \/ WatchRun(UpConfig(TRUE, TRUE), UpEnv(FALSE, FALSE, "valid", 0, 503), took)
         \/ WatchRun(UpConfig(TRUE, TRUE), UpEnv(FALSE, FALSE, "missing", 0, 0), took)
         \/ WatchRun(UpConfig(FALSE, TRUE), UpEnv(FALSE, FALSE, "valid", 0, 0), took)
    \/ \E jitter \in jitterValues(DEFAULT_JITTER_MS) : WatchSleep(jitter)

SpecWatch == WatchInit /\ [][WatchNext]_vars

\* C27: the runs of the loop follow one another, and no run starts less
\* than 15 minutes after the previous run started, however the previous
\* runs ended.
C27_RunsFifteenMinutesApart ==
    wtRuns >= 2 => wtLastStart >= wtPrevStart + 15

\* What does hold: a run that follows a successful one starts 15 minutes or
\* more after it.
WatchAfterSuccess ==
    [][(wtPc = "run" /\ wtPc' = "sleep" /\ wtRuns >= 1 /\ wtLastStatus = "success")
          => wtNow >= wtLastStart + 15]_vars

\* A run failed or was skipped some minutes after the last success, and the
\* next run started without a wait.
WatchHotLoop ==
    /\ wtRuns = 3
    /\ wtLastStatus \in {"error", "skipped"}
    /\ wtLastStart = wtPrevStart

(***************************************************************************)
(* runSyncOnce step by step, for invocations of the tool that overlap and   *)
(* may be killed.  The steps of one invocation are, in the order of         *)
(* sync.ts: read state.json (148), read the config and discover the usage   *)
(* files (165-223), parse and aggregate (225-238), decide whether to upload *)
(* (266-319), post the payloads one by one (323-455), write state.json      *)
(* (176, 204, 386 or 464).  No lock is taken: the steps of the invocations  *)
(* interleave freely.                                                       *)
(***************************************************************************)
Procs == 1..MaxProcs

\* state.json as an earlier run left it: one line of the usage file parsed.
PreviousFiles == [p \in {UsagePath} |-> [lines |-> <<UpLine>>, mtimeMs |-> 1]]

PreviousRun ==
    runSyncOnce(AbsentFile, <<>>, UpConfig(TRUE, TRUE), PreviousFiles, 0, LocalOnlyEnv)

\* A payload an earlier run failed to upload.
PreviousQueue ==
    enqueuePayload(<<>>, [generatedAt |-> 0, dailyTotals |-> EmptyMap],
                   "Request failed.", 0).file

NoSnap == readSyncState(AbsentFile)

NoPipeline == syncPipeline(DEFAULT_STATE, <<>>, EmptyMap)

NoPlan == RunOutcome("", NoString, "", "", "", <<>>, <<>>)

NoPending == [state |-> DEFAULT_STATE, meta |-> NoMeta]

ProcInit ==
    /\ prPc = [p \in Procs |-> "idle"]
    /\ prEnv = [p \in Procs |-> [config |-> NoConfig, env |-> LocalOnlyEnv,
                               files |-> EmptyMap]]
    /\ prStart = [p \in Procs |-> 0]
    /\ prSnap = [p \in Procs |-> NoSnap]
    /\ prRun = [p \in Procs |-> NoPipeline]
    /\ prPlan = [p \in Procs |-> NoPlan]
    /\ prSent = [p \in Procs |-> 0]
    /\ prPending = [p \in Procs |-> NoPending]
    /\ prReads = [p \in Procs |-> 0]
    /\ prWrites = [p \in Procs |-> 0]
    /\ prDisk = PreviousRun.disk
    /\ prQueue = PreviousQueue
    /\ prFiles = PreviousFiles
    /\ prClock = 0
    /\ prWriters = <<>>
    /\ ProcOthersIdle

\* A bug: the cursors and totals are saved as soon as they are computed.
writesStateEager(step) == step \in {"parse", "write"}

\* The steps of runSyncOnce that call writeSyncState.
writesState(step) == step = "write"

\* A bug: the run builds on state.json as it is when it gets to use it.
baseStateReread(snap, disk) == readSyncState(disk)

\* The state a run builds on: the one it read at line 148.
baseState(snap, disk) == snap

\* What a step leaves in state.json, given what the run would write.
diskAfter(step, disk, pending) ==
    IF writesState(step) THEN writeSyncState(pending) ELSE disk

\* A step of invocation p: its place moves to next, pending is what it would
\* write, and state.json is written if the step is one that writes.
ProcStep(p, step, next, pending) ==
    /\ prPc' = [prPc EXCEPT ![p] = next]
    /\ prPending' = [prPending EXCEPT ![p] = pending]
    /\ prDisk' = diskAfter(step, prDisk, pending)
    /\ prWrites' = [prWrites EXCEPT ![p] = IF writesState(step) THEN @ + 1 ELSE @]
    /\ prWriters' = IF writesState(step) THEN Append(prWriters, p) ELSE prWriters

\* Line 148.  writeFileSync truncates state.json and then fills it: a read
\* that falls into the write of another invocation may find JSON cut short.
ProcStart(p, config, env, torn) ==
    /\ prPc[p] = "idle"
    /\ torn => \E q \in Procs \ {p} : prPc[q] = "write"
    /\ prClock' = prClock + 1
    /\ prStart' = [prStart EXCEPT ![p] = prClock']
    /\ prEnv' = [prEnv EXCEPT ![p] = [config |-> config, env |-> env, files |-> EmptyMap]]
    /\ prReads' = [prReads EXCEPT ![p] = @ + 1]
    /\ \E snap \in {readSyncState(IF torn THEN CorruptFile ELSE prDisk)} :
         /\ prSnap' = [prSnap EXCEPT ![p] = snap]
         /\ ProcStep(p, "read", IF snap.threw THEN "done" ELSE "config",
                     [state |-> snap.state, meta |-> snap.meta])
    /\ UNCHANGED <<prRun, prPlan, prSent, prQueue, prFiles, procOthers>>

\* Lines 165-223.
ProcConfigure(p) ==
    /\ prPc[p] = "config"
    /\ \E cfg \in {readConfig(prEnv[p].config)} :
         IF cfg.threw
         THEN ProcStep(p, "config", "write",
                       configErrorState(baseState(prSnap[p], prDisk), cfg.message,
                                        prStart[p]))
         ELSE IF Len(discoverUsageSources(cfg.usagePath, prFiles)) = 0
         THEN ProcStep(p, "config", "write",
                       notFoundState(baseState(prSnap[p], prDisk), prStart[p]))
         ELSE ProcStep(p, "config", "parse", prPending[p])
    /\ UNCHANGED <<prEnv, prStart, prSnap, prRun, prPlan, prSent, prReads, prQueue,
                   prFiles, prClock, procOthers>>

\* Lines 225-238.  prEnv keeps the usage file as the run found it.
ProcParse(p) ==
    /\ prPc[p] = "parse"
    /\ \E run \in {syncPipeline(baseState(prSnap[p], prDisk).state,
                                discoverUsageSources(prEnv[p].config.usagePath, prFiles),
                                prFiles)} :
         /\ prRun' = [prRun EXCEPT ![p] = run]
         /\ ProcStep(p, "parse", "decide",
                     [state |-> nextSyncState(prSnap[p].state, run),
                      meta |-> prSnap[p].meta])
    /\ prEnv' = [prEnv EXCEPT ![p].files = prFiles]
    /\ UNCHANGED <<prStart, prSnap, prPlan, prSent, prReads, prQueue, prFiles, prClock,
                   procOthers>>

\* Lines 266-319: the rate limit, queue.json, the token and the decision.
\* The answers of the API to this run's requests are those of prEnv.
ProcDecide(p) ==
    /\ prPc[p] = "decide"
    /\ \E plan \in {upload(prSnap[p], prQueue, readConfig(prEnv[p].config),
                           localOnlyMode(prEnv[p].env.options, readConfig(prEnv[p].config),
                                         prEnv[p].env.BRAG_LOCAL_ONLY),
                           prEnv[p].env.auth,
                           getRateLimitStatus(prSnap[p].meta.lastSuccessAt, prStart[p]),
                           prEnv[p].env.options,
                           [generatedAt |-> prStart[p],
                            dailyTotals |-> prRun[p].nextDailyTotals],
                           prEnv[p].env.net, prStart[p])} :
         /\ prPlan' = [prPlan EXCEPT ![p] = plan]
         /\ ProcStep(p, "decide", IF plan.posts = <<>> THEN "write" ELSE "post",
                     finalState(prSnap[p], prRun[p], plan, prStart[p]))
    /\ UNCHANGED <<prEnv, prStart, prSnap, prRun, prSent, prReads, prQueue, prFiles,
                   prClock, procOthers>>

\* Lines 323-455: one request.  With the last one queue.json is brought up
\* to date (updateQueue at 369-375, enqueuePayload at 440).
ProcPost(p) ==
    /\ prPc[p] = "post"
    /\ prSent[p] < Len(prPlan[p].posts)
    /\ prSent' = [prSent EXCEPT ![p] = @ + 1]
    /\ IF prSent'[p] = Len(prPlan[p].posts)
       THEN /\ prQueue' = prPlan[p].queue
            /\ ProcStep(p, "post", "write", prPending[p])
       ELSE /\ prQueue' = prQueue
            /\ ProcStep(p, "post", "post", prPending[p])
    /\ UNCHANGED <<prEnv, prStart, prSnap, prRun, prPlan, prReads, prFiles, prClock,
                   procOthers>>

\* Lines 176, 204, 386, 464: writeSyncState, and the run returns.
ProcWrite(p) ==
    /\ prPc[p] = "write"
    /\ ProcStep(p, "write", "done", prPending[p])
    /\ UNCHANGED <<prEnv, prStart, prSnap, prRun, prPlan, prSent, prReads, prQueue,
                   prFiles, prClock, procOthers>>

\* The process is killed before it returns.
ProcKill(p) ==
    /\ prPc[p] \in {"config", "parse", "decide", "post", "write"}
    /\ prPc' = [prPc EXCEPT ![p] = "killed"]
    /\ UNCHANGED <<prEnv, prStart, prSnap, prRun, prPlan, prSent, prPending, prReads,
                   prWrites, prDisk, prQueue, prFiles, prClock, prWriters, procOthers>>

\* The usage file grows while the invocations run.
ProcAppendLine ==
    /\ Len(prFiles[UsagePath].lines) < MaxBatch
    /\ \E p \in Procs : prPc[p] \notin {"idle", "done", "killed"}
    /\ prFiles' = [prFiles EXCEPT ![UsagePath] =
                      [lines |-> Append(@.lines, UpLine), mtimeMs |-> @.mtimeMs + 1]]
    /\ UNCHANGED <<prPc, prEnv, prStart, prSnap, prRun, prPlan, prSent, prPending,
                   prReads, prWrites, prDisk, prQueue, prClock, prWriters, procOthers>>

ProcNext ==
    \/ \E p \in Procs : \E torn \in BOOLEAN :
         \/ ProcStart(p, UpConfig(TRUE, TRUE), UpEnv(FALSE, FALSE, "valid", 2, 0), torn)
         \/ ProcStart(p, UpConfig(TRUE, TRUE), UpEnv(FALSE, FALSE, "valid", 0, 503), torn)
         \/ ProcStart(p, UpConfig(TRUE, TRUE), UpEnv(FALSE, FALSE, "valid", 1, 503), torn)
         \/ ProcStart(p, UpConfig(TRUE, TRUE), UpEnv(FALSE, TRUE, "valid", 0, 0), torn)
         \/ ProcStart(p, UpConfig(FALSE, TRUE), UpEnv(FALSE, FALSE, "valid", 0, 0), torn)
    \/ \E p \in Procs : ProcConfigure(p)
    \/ \E p \in Procs : ProcParse(p)
    \/ \E p \in Procs : ProcDecide(p)
    \/ \E p \in Procs : ProcPost(p)
    \/ \E p \in Procs : ProcWrite(p)
    \/ \E p \in Procs : ProcKill(p)
    \/ ProcAppendLine

SpecProc == ProcInit /\ [][ProcNext]_vars

\* The invocation has made every request it was going to make.
UploadsFinished(p) == prSent[p] = Len(prPlan[p].posts)

WrittenOnceLast ==
    /\ \A p \in Procs :
         /\ prWrites[p] <= 1
         /\ prWrites[p] = 1 => (prPc[p] = "done" /\ UploadsFinished(p))
         /\ prPc[p] = "killed" => prWrites[p] = 0
    /\ Len(prWriters) = 0 => prDisk = PreviousRun.disk

\* C28: an invocation writes state.json at most once, as its last step,
\* when its parsing and aggregation and all its requests are over; no
\* earlier step changes state.json, so that an invocation killed before its
\* write leaves the file as it found it, and while no invocation has
\* written the file is as the previous run left it.
C28_StateWrittenOnceLast ==
    /\ []WrittenOnceLast
    /\ [][\A p \in Procs :
            prPc'[p] # prPc[p] =>
                IF prPc[p] = "write" /\ prPc'[p] = "done"
                THEN /\ prWrites'[p] = 1
                     /\ prDisk' = writeSyncState(prPending[p])
                ELSE /\ prWrites'[p] = prWrites[p]
                     /\ prDisk' = prDisk]_vars
    /\ [][prDisk' # prDisk => \E p \in Procs : prPc[p] = "write" /\ prPc'[p] = "done"]_vars

\* An invocation parsed a new line, posted the queued payload and the latest
\* one and was killed before it wrote: state.json is still what the previous
\* run left, not what the invocation was about to write.
C28_Witness ==
    \E p \in Procs :
        /\ prPc[p] = "killed"
        /\ prSent[p] = 2
        /\ Len(prRun[p].parsed.records) > 0
        /\ Len(prWriters) = 0
        /\ prDisk = PreviousRun.disk
        /\ prPending[p].state # prDisk.state

\* An invocation ran to its end and wrote what it had computed.
C28_Written ==
    \E p \in Procs :
        /\ prPc[p] = "done" /\ prWrites[p] = 1 /\ prSent[p] = 2
        /\ prWriters = <<p>>
        /\ prDisk.state # PreviousRun.disk.state

\* What invocation p computes from the state it read and the usage file it
\* found, and from nothing else: the state it read if it did not parse.
Parsed(p) == prEnv[p].files # EmptyMap

OwnState(p) ==
    IF Parsed(p)
    THEN nextSyncState(prSnap[p].state,
                       syncPipeline(prSnap[p].state,
                                    discoverUsageSources(UsagePath, prEnv[p].files),
                                    prEnv[p].files))
    ELSE prSnap[p].state

LastWriter == prWriters[Len(prWriters)]

\* state.json is what the invocation that wrote last computed on its own.
LastWriterWins ==
    Len(prWriters) > 0 =>
        /\ prDisk.kind = "json"
        /\ prDisk.state = OwnState(LastWriter)
        /\ prDisk.meta.lastRunAt = prStart[LastWriter]
        /\ prDisk = writeSyncState(prPending[LastWriter])

ReadsOnceAtStart ==
    \A p \in Procs : prReads[p] = IF prPc[p] = "idle" THEN 0 ELSE 1

C29_TornRead ==
    \E p \in Procs : prPc[p] = "done" /\ prSnap[p].threw /\ prWrites[p] = 0

(***************************************************************************)
(* One call of pollDeviceToken, request by request.                         *)
(***************************************************************************)
PollInit ==
    /\ plDevice \in [expiresIn : {7, MaxExpiresIn}, interval : {0, 1, 5}]
    /\ plNow = 0
    /\ plExpiresAt = plNow + plDevice.expiresIn
    /\ plInterval = plDevice.interval
    /\ plPc = "check"
    /\ plLast = NoAnswer
    /\ plPolledAt = 0
    /\ plSlowDowns = 0
    /\ plWait = 0
    /\ plResult = NoPoll
    /\ PollOthersIdle

\* Lines 197-207 and 254: the deadline is checked, and a request is sent or
\* the call throws.
PollCheck ==
    /\ plPc = "check"
    /\ IF beforeDeadline(plNow, plExpiresAt)
       THEN /\ plPc' = "request"
            /\ plPolledAt' = plNow
            /\ UNCHANGED plResult
       ELSE /\ plPc' = "threw"
            /\ plResult' = threw("OAuth device code expired. Run login again.")
            /\ UNCHANGED plPolledAt
    /\ UNCHANGED <<plDevice, plNow, plExpiresAt, plInterval, plLast, plSlowDowns, plWait,
                   pollOthers>>

\* Lines 207-251: the answer arrives took seconds later.
PollAnswer(answer, took) ==
    /\ plPc = "request"
    /\ plNow' = plNow + took
    /\ plLast' = answer
    /\ plSlowDowns' = IF answer.code = "slow_down" THEN plSlowDowns + 1 ELSE plSlowDowns
    /\ \E outcome \in {pollOutcome(answer, plInterval)} :
         /\ plInterval' = outcome.interval
         /\ plResult' = outcome.result
         /\ plPc' = IF outcome.result = NoPoll THEN "sleep" ELSE outcome.result.kind
    /\ UNCHANGED <<plDevice, plExpiresAt, plPolledAt, plWait, pollOthers>>

\* Lines 233 and 239: await sleep(intervalMs).
PollSleep ==
    /\ plPc = "sleep"
    /\ plWait' = plInterval
    /\ plNow' = plNow + plInterval
    /\ plPc' = "check"
    /\ UNCHANGED <<plDevice, plExpiresAt, plInterval, plLast, plPolledAt, plSlowDowns,
                   plResult, pollOthers>>

PollNext ==
    \/ PollCheck
    \/ \E answer \in TokenAnswers : \E took \in 0..MaxLatency : PollAnswer(answer, took)
    \/ PollSleep

SpecPoll == PollInit /\ [][PollNext]_vars

Expired == threw("OAuth device code expired. Run login again.")

PollSafe ==
    /\ plPc \in {"sleep", "check"} /\ plLast # NoAnswer
          => plLast.code \in {"authorization_pending", "slow_down"}
    /\ plLast.code \in {"authorization_pending", "slow_down"}
          => plPc \in {"sleep", "check", "request", "threw"}
    /\ plInterval = plDevice.interval + 5 * plSlowDowns
    /\ (plPc = "check" /\ plLast # NoAnswer) => plWait = plInterval
    /\ plPc = "returned" => (plLast.ok /\ plLast.token /\ plResult = returned("token"))
    /\ (plLast.ok /\ plLast.token) => plPc = "returned"
    /\ plLast.code = "access_denied"
          => (plPc = "threw" /\ plResult = threw("OAuth authorization was denied."))
    /\ plLast.code \in {"expired_token", "invalid_client"}
          => (plPc = "threw" /\ plResult.kind = "threw")
    /\ plLast.code = "expired_token" => plResult = Expired
    /\ (plPc = "threw" /\ plLast.code \in {"authorization_pending", "slow_down"})
          => (plResult = Expired /\ plNow >= plDevice.expiresIn)
    /\ plPc = "request" => plPolledAt < plDevice.expiresIn
    /\ plPolledAt <= plNow

\* C30: pollDeviceToken polls again after authorization_pending, having
\* waited the interval, and after slow_down, having raised the interval by
\* 5 seconds and waited it; it returns the token at the first answer that
\* carries one; it throws "OAuth authorization was denied." on
\* access_denied and throws on every other error code; once expiresIn
\* seconds have passed it throws the device-code-expired error instead of
\* polling, and no request is made at or after that time.
C30_DevicePolling ==
    /\ []PollSafe
    /\ [][(plPc = "check" /\ plNow >= plDevice.expiresIn)
            => (plPc' = "threw" /\ plResult' = Expired)]_vars
    /\ [][(plPc = "check" /\ plNow < plDevice.expiresIn) => plPc' = "request"]_vars
    /\ [][plPc = "request" => plNow >= plPolledAt /\ plPolledAt < plDevice.expiresIn]_vars

\* After authorization_pending and a slow_down the interval is 5 seconds
\* longer, the call has waited it and polls again; later the token arrives.
C30_Witness ==
    /\ plPc = "returned"
    /\ plSlowDowns = 1
    /\ plWait = plDevice.interval + 5
    /\ plDevice.interval > 0
    /\ plResult = returned("token")

\* The deadline passed during a wait and the call threw without polling.
C30_Expired ==
    /\ plPc = "threw" /\ plResult = Expired
    /\ plLast.code = "authorization_pending"
    /\ plNow >= plDevice.expiresIn
    /\ plPolledAt < plDevice.expiresIn

(***************************************************************************)
(* The upload decision of one run (sync.ts:263-319) under every             *)
(* combination of --local-only, config.localOnly, BRAG_LOCAL_ONLY, API base *)
(* URL, token, --force and rate limit, with and without usage files and a   *)
(* readable config.                                                         *)
(***************************************************************************)
\* state.json after a run that uploaded at minute 0.
UploadedAtZero ==
    runSyncOnce(AbsentFile, <<>>, UpConfig(TRUE, TRUE), PreviousFiles, 0,
                UpEnv(FALSE, FALSE, "valid", 1, 0)).disk

\* resolveAuthToken: the status, and "valid_no_token" for status valid with
\* an empty token.
AuthResults == {"valid", "valid_no_token", "missing", "expired", "refresh_failed"}

LocalOnlyValues == {"", "1", " TRUE ", "Yes", "0"}

GateInit ==
    /\ gtIn \in [disk : {AbsentFile, UploadedAtZero},
                 now : {7, 20},
                 files : {EmptyMap, PreviousFiles},
                 config : [readable : BOOLEAN, usagePath : {UsagePath},
                           apiBaseUrl : BOOLEAN, localOnly : BOOLEAN],
                 env : [options : [force : BOOLEAN, localOnly : BOOLEAN],
                        auth : AuthResults,
                        BRAG_LOCAL_ONLY : LocalOnlyValues,
                        net : {[okCount |-> 2, failStatus |-> 0],
                               [okCount |-> 0, failStatus |-> 503]}]]
    /\ gtOut = earlyReturn(errorResult(""), AbsentFile, <<>>, FALSE, 0)
    /\ gtDone = FALSE
    /\ GateOthersIdle

GateRun ==
    /\ ~gtDone
    /\ gtOut' = runSyncOnce(gtIn.disk, PreviousQueue, gtIn.config, gtIn.files, gtIn.now,
                            gtIn.env)
    /\ gtDone' = TRUE
    /\ UNCHANGED <<gtIn, gateOthers>>

GateNext == GateRun

SpecGate == GateInit /\ [][GateNext]_vars

\* Local-only mode is off, a sync URL was resolved and the token is valid.
GateOpen ==
    /\ ~gtIn.env.options.localOnly
    /\ ~gtIn.config.localOnly
    /\ gtIn.env.BRAG_LOCAL_ONLY \notin {"1", " TRUE ", "Yes"}
    /\ gtIn.config.apiBaseUrl
    /\ gtIn.env.auth = "valid"

SuccessKept ==
    readSyncState(gtOut.disk).meta.lastSuccessAt = readSyncState(gtIn.disk).meta.lastSuccessAt

\* C31 as stated: a request is sent only if local-only mode is off, a sync
\* URL was resolved and the token is valid; in every other case no request
\* is sent, the run ends with status skipped and lastSuccessAt is unchanged.
C31_Original ==
    gtDone =>
        /\ gtOut.posts # <<>> => GateOpen
        /\ ~GateOpen => /\ gtOut.posts = <<>>
                        /\ gtOut.result.status = "skipped"
                        /\ SuccessKept

\* C31: a request is sent only if local-only mode is off (flag, config and
\* BRAG_LOCAL_ONLY), a sync URL was resolved and the token is valid; in
\* every other case no request is sent and lastSuccessAt is unchanged, and
\* the run ends with status skipped if it got as far as the upload decision
\* and with status error if it stopped before (config not readable, no
\* usage files).
C31_UploadGated ==
    gtDone =>
        /\ gtOut.posts # <<>> => GateOpen
        /\ ~GateOpen => /\ gtOut.posts = <<>>
                        /\ SuccessKept
                        /\ gtOut.result.status = IF gtOut.parsed THEN "skipped" ELSE "error"
                        /\ gtOut.parsed <=> (gtIn.config.readable /\ gtIn.files # EmptyMap)

\* BRAG_LOCAL_ONLY=" TRUE " alone kept a forced run with a valid token, an
\* API base URL and a queued payload from uploading; the success on record
\* is still the one of minute 0.
C31_Witness ==
    /\ gtDone
    /\ gtIn.env.BRAG_LOCAL_ONLY = " TRUE "
    /\ ~gtIn.env.options.localOnly /\ ~gtIn.config.localOnly
    /\ gtIn.config.apiBaseUrl /\ gtIn.env.auth = "valid" /\ gtIn.env.options.force
    /\ gtOut.result.status = "skipped"
    /\ gtOut.posts = <<>>
    /\ gtOut.disk.meta.lastSuccessAt = IsoString(0)
    /\ gtOut.queue = PreviousQueue

\* With the gate open a run uploaded.
C31_Uploaded == gtDone /\ GateOpen /\ Len(gtOut.posts) = 2 /\ gtOut.result.status = "success"

(***************************************************************************)
(* SpecCarry: an append-only line-delimited file whose lines declare a     *)
(* model, report usage with or without a model, or wrap usage entries in   *)
(* an array, scanned again and again with the stored cursor.               *)
(***************************************************************************)
CarryEntry == ObjectLine(<<>>, "2026-01-01", FALSE, "none", [input |-> Num(3)])

CarryLineSet ==
    {BlankLine,
     ObjectLine(M_O1, "", FALSE, "none", NoFields),
     ObjectLine(M_GPT, "2026-01-01", FALSE, "none", [input |-> Num(2)]),
     ObjectLine(<<>>, "2026-01-01", TRUE, "last", [input |-> Num(1)]),
     WrapperLine(<<>>, TRUE, <<CarryEntry>>)}

CarryInit ==
    /\ scanPath = "a.jsonl"
    /\ scanFile = [lines |-> <<>>, mtimeMs |-> 0]
    /\ scanCursor = <<>>
    /\ scanOut = NoScan
    /\ scanDone = FALSE
    /\ ScanOthersIdle

CarryNext ==
    \/ \E line \in CarryLineSet : ScanAppend(line)
    \/ ScanTouch
    \/ Scan
    \/ StoreCursor

SpecCarry == CarryInit /\ [][CarryNext]_vars

\* The lines a scan reads: those above the cursor's lastLine.
CarryFrom == IF scanCursor = <<>> THEN 1 ELSE scanCursor.lastLine + 1

\* Line i is a token event without an explicit model.
ModelLessEvent(lines, i) ==
    lines[i].kind = "object" /\ lines[i].model = <<>> /\ isTokenEvent(lines[i])

\* The number of usage records line i holds.
RecordsHeld(lines, i) ==
    Len(parseJsonValue(lines[i], "a.jsonl").records)

\* The model of the nearest line at or above line i that has one, "unknown"
\* when there is none.
NearestModel(lines, i) ==
    IF LineModel(lines, i) = <<>> THEN <<"unknown">> ELSE LineModel(lines, i)

\* The index in the scan's records of the first record of line i.
RECURSIVE RecordsBefore(_, _, _)
RecordsBefore(lines, from, i) ==
    IF from >= i THEN 0
    ELSE RecordsHeld(lines, from) + RecordsBefore(lines, from + 1, i)

\* The records the scan returned for line i carry the nearest model.
CarriedAt(i) ==
    \A k \in 1..RecordsHeld(scanFile.lines, i) :
        LET at == RecordsBefore(scanFile.lines, CarryFrom, i) + k
        IN  /\ at \in DOMAIN scanOut.records
            /\ scanOut.records[at].model = NearestModel(scanFile.lines, i)

\* C32: in every scan of an append-only line-delimited file, each record read
\* from a token-event line without an explicit model has the explicit model of
\* the nearest line above it, also of one read by an earlier scan, and
\* "unknown" when no line above it has one.
C32_ModelCarriedForward ==
    (scanDone /\ scanOut.opened) =>
        \A i \in CarryFrom..Len(scanFile.lines) :
            ModelLessEvent(scanFile.lines, i) => CarriedAt(i)

\* The same for the lines that hold no array: the object is its own entry.
CarriedOnPlainLines ==
    (scanDone /\ scanOut.opened) =>
        \A i \in CarryFrom..Len(scanFile.lines) :
            (ModelLessEvent(scanFile.lines, i) /\ "entries" \notin DOMAIN scanFile.lines[i])
                => CarriedAt(i)

\* A model declared in an earlier scan reaches a later scan's record.
CarriedAcrossScans ==
    /\ scanDone
    /\ scanCursor # <<>>
    /\ scanCursor.lastLine = 2
    /\ "lastModel" \in DOMAIN scanCursor
    /\ scanCursor.lastModel = M_O1
    /\ Len(scanFile.lines) = 3
    /\ "entries" \notin DOMAIN scanFile.lines[3]
    /\ ModelLessEvent(scanFile.lines, 3)
    /\ Len(scanOut.records) = 1
    /\ scanOut.records[1].model = M_O1

(***************************************************************************)
(* SpecWhole: a usage file without the .jsonl extension that holds one     *)
(* JSON array.  The producer writes the file again with one more element   *)
(* (the modification time may or may not move) or with the same content,   *)
(* and the reader scans it with the stored cursor.                         *)
(***************************************************************************)
WholeEntrySet ==
    {ObjectLine(M_O1, "", FALSE, "none", NoFields),
     ObjectLine(<<>>, "2026-01-01", TRUE, "last", [input |-> Num(1)]),
     ObjectLine(M_GPT, "2026-01-01", FALSE, "none", [input |-> Num(2)]),
     ObjectLine(M_GPT, "2026-01-02", FALSE, "total", [input |-> Num(5)])}

WholeInit ==
    /\ scanPath = "c.json"
    /\ scanFile = [lines |-> <<ArrayLine(<<>>)>>, mtimeMs |-> 0]
    /\ scanCursor = <<>>
    /\ scanOut = NoScan
    /\ scanDone = FALSE
    /\ ScanOthersIdle

WholeDoc == scanFile.lines[1]

\* The document is written again with one more element.
WholeWrite(entry, tick) ==
    /\ ScanMayChange
    /\ Len(WholeDoc.entries) < MaxEntries
    /\ scanFile' = [lines |-> <<ArrayLine(Append(WholeDoc.entries, entry))>>,
                    mtimeMs |-> scanFile.mtimeMs + tick]
    /\ UNCHANGED <<scanPath, scanCursor, scanOut, scanDone, scanOthers>>

WholeNext ==
    \/ \E entry \in WholeEntrySet, tick \in {0, 1} : WholeWrite(entry, tick)
    \/ ScanTouch
    \/ Scan
    \/ StoreCursor

SpecWhole == WholeInit /\ [][WholeNext]_vars

\* The usage records of the document's elements, each with its own model.
RECURSIVE EntryRecords(_, _, _)
EntryRecords(entries, i, path) ==
    IF i > Len(entries) THEN <<>>
    ELSE (IF IsRecordLine(entries, i)
          THEN <<[day |-> entries[i].day,
                  model |-> IF entries[i].model = <<>> THEN <<"unknown">>
                            ELSE entries[i].model,
                  tokens |-> [a \in DOMAIN entries[i].fields |-> entries[i].fields[a].v],
                  source |-> path,
                  mode |-> IF entries[i].usage = "total" THEN "cumulative" ELSE "delta"]>>
          ELSE <<>>)
         \o EntryRecords(entries, i + 1, path)

WholeRecords == EntryRecords(WholeDoc.entries, 1, scanPath)

\* C33: a scan of a whole-file JSON source that holds usage records returns
\* no records and the cursor it was given when size and modification time
\* equal the cursor's; otherwise it returns the records of the whole document,
\* those an earlier scan returned included, and the cursor {lastLine: 1,
\* current size, current modification time}.
C33_WholeFileAllOrNothing ==
    (scanDone /\ WholeRecords # <<>>) =>
        IF ScanSameSizeAndMtime
        THEN scanOut.records = <<>> /\ scanOut.cursor = scanCursor
        ELSE /\ scanOut.records = WholeRecords
             /\ scanOut.cursor = [lastLine |-> 1, lastSize |-> ScanStats.size,
                                  lastMtimeMs |-> ScanStats.mtimeMs]

\* A second scan returns the record the first scan returned and the new one.
C33_Witness ==
    /\ scanDone
    /\ scanCursor = [lastLine |-> 1, lastSize |-> 4, lastMtimeMs |-> 1]
    /\ Len(WholeDoc.entries) = 2
    /\ IsRecordLine(WholeDoc.entries, 1)
    /\ Len(scanOut.records) = 2
    /\ scanOut.cursor = [lastLine |-> 1, lastSize |-> 6, lastMtimeMs |-> 2]

\* A scan that is skipped: same size, same time as the cursor.
C33_Skipped ==
    /\ scanDone
    /\ ScanSameSizeAndMtime
    /\ WholeRecords # <<>>
    /\ scanOut.records = <<>>
    /\ ~scanOut.opened

(***************************************************************************)
(* SpecSplit: the same delta records taken by one run of the pipeline      *)
(* (aggregateUsage, then mergeAggregates into the ledger) and by several   *)
(* consecutive runs that each take the next few of them.                   *)
(***************************************************************************)
SplitTokenSet ==
    {[input |-> 2, output |-> 1],
     [input |-> 10, cache |-> 3],
     [cache |-> 5],
     [total |-> 5]}

SplitKeySet == {<<"2026-01-01", M_GPT>>, <<"2026-01-02", M_GPT>>}

SplitRecordSet ==
    {[day |-> k[1], model |-> k[2], tokens |-> t, source |-> "a.jsonl", mode |-> "delta"] :
        k \in SplitKeySet, t \in SplitTokenSet}

SplitBases ==
    {EmptyMap,
     [k \in {DayModelKey("2026-01-01", M_GPT)} |->
         [input |-> 4, output |-> 0, cache |-> 1, thinking |-> 0, total |-> 4]]}

SplitInit ==
    /\ spRecords \in SeqsUpTo(SplitRecordSet, MaxRecs)
    /\ spBase \in SplitBases
    /\ spAt = 0
    /\ spRuns = 0
    /\ spLedger = spBase
    /\ spWhole = EmptyMap
    /\ spWholeDone = FALSE
    /\ SplitOthersIdle

\* sync.ts: aggregated = aggregateUsage(records); mergeAggregates(dailyTotals, aggregated)
runLedger(ledger, records) == mergeAggregates(ledger, aggregateUsage(records))

\* One of the consecutive runs: it finds the next n records.
SplitRun(n) ==
    /\ spAt + n <= Len(spRecords)
    /\ spLedger' = runLedger(spLedger, SubSeq(spRecords, spAt + 1, spAt + n))
    /\ spAt' = spAt + n
    /\ spRuns' = spRuns + 1
    /\ UNCHANGED <<spRecords, spBase, spWhole, spWholeDone, splitOthers>>

\* The one run that finds all the records.
WholeRun ==
    /\ ~spWholeDone
    /\ spWhole' = runLedger(spBase, spRecords)
    /\ spWholeDone' = TRUE
    /\ UNCHANGED <<spRecords, spBase, spAt, spRuns, spLedger, splitOthers>>

SplitNext ==
    \/ \E n \in 1..MaxRecs : SplitRun(n)
    \/ WholeRun

SpecSplit == SplitInit /\ [][SplitNext]_vars

\* Both ways of processing have taken every record.
SplitCompared == spWholeDone /\ spAt = Len(spRecords) /\ spRuns >= 2

\* C34: the ledger after one run over all the delta records equals, on all
\* five axes, the ledger after two or more consecutive runs that took the same
\* records between them.
C34_BatchSplitInvariant ==
    SplitCompared => spLedger = spWhole

\* The two ledgers have the same keys and agree on input, output, cache and
\* thinking.
SplitInvariantOnSumAxes ==
    SplitCompared =>
        /\ DOMAIN spLedger = DOMAIN spWhole
        /\ \A key \in DOMAIN spLedger : \A a \in SumAxes :
               spLedger[key][a] = spWhole[key][a]

\* The total of a key differs between the two ledgers.
SplitTotalsDiffer ==
    /\ SplitCompared
    /\ \E key \in DOMAIN spLedger \cap DOMAIN spWhole :
           spLedger[key].total # spWhole[key].total

(***************************************************************************)
(* SpecTele: cumulative snapshots of one source::day::model key that never *)
(* decrease on any axis, with snapshots of another key among them, taken   *)
(* by applyCumulativeAdjustments a few at a time, each call on the map the *)
(* call before returned.                                                   *)
(***************************************************************************)
TeleTokenSet ==
    {[input |-> 1],
     [input |-> 3, output |-> 2],
     [input |-> 3, output |-> 2, total |-> 5],
     [input |-> 4, output |-> 2, cache |-> 1, thinking |-> 1, total |-> 8]}

TeleKey == SourceDayModelKey("a.jsonl", "2026-01-01", M_GPT)

TeleSnapshot(tokens) ==
    [day |-> "2026-01-01", model |-> M_GPT, tokens |-> tokens, source |-> "a.jsonl",
     mode |-> "cumulative"]

\* A snapshot of another file's key.
TeleOther ==
    [day |-> "2026-01-01", model |-> M_GPT, tokens |-> [input |-> 9, total |-> 9],
     source |-> "b.jsonl", mode |-> "cumulative"]

IsTeleSnapshot(record) == record.source = "a.jsonl"

\* No axis of b is below that of a.
NotBelow(a, b) == \A x \in Axes : normalizeTotals(b)[x] >= normalizeTotals(a)[x]

\* The key's snapshots among records[1..n], in order.
TeleTaken(records, n) == SelectSeq(SubSeq(records, 1, n), IsTeleSnapshot)

NonDecreasing(base, records) ==
    LET snaps == TeleTaken(records, Len(records))
    IN  /\ snaps # <<>> => NotBelow(base, snaps[1].tokens)
        /\ \A i \in 1..(Len(snaps) - 1) : NotBelow(snaps[i].tokens, snaps[i + 1].tokens)

TeleBases == {EmptyMap, [k \in {TeleKey} |-> normalizeTotals([input |-> 1])]}

TeleBaseline(cumulative) ==
    IF TeleKey \in DOMAIN cumulative THEN cumulative[TeleKey] ELSE emptyTotals

TeleInit ==
    /\ tlBase \in TeleBases
    /\ tlSnaps \in {records \in SeqsUpTo({TeleSnapshot(t) : t \in TeleTokenSet}
                                           \cup {TeleOther}, MaxRecs + 1) :
                       NonDecreasing(TeleBaseline(tlBase), records)}
    /\ tlAt = 0
    /\ tlBatches = 0
    /\ tlCum = tlBase
    /\ tlSum = emptyTotals
    /\ TeleOthersIdle

\* The per-axis sum of the deltas emitted for the key.
RECURSIVE sumDeltas(_, _)
sumDeltas(sum, records) ==
    IF records = <<>> THEN sum
    ELSE sumDeltas(IF IsTeleSnapshot(Head(records)) THEN addTotals(sum, Head(records).tokens)
                   ELSE sum,
                   Tail(records))

\* A run: the next n records, on the baselines the run before stored.
TeleBatch(n) ==
    /\ tlAt + n <= Len(tlSnaps)
    /\ \E adjusted \in {applyCumulativeAdjustments(SubSeq(tlSnaps, tlAt + 1, tlAt + n), tlCum)} :
         /\ tlCum' = adjusted.cumulative
         /\ tlSum' = sumDeltas(tlSum, adjusted.records)
    /\ tlAt' = tlAt + n
    /\ tlBatches' = tlBatches + 1
    /\ UNCHANGED <<tlSnaps, tlBase, teleOthers>>

TeleNext == \E n \in 1..(MaxRecs + 1) : TeleBatch(n)

SpecTele == TeleInit /\ [][TeleNext]_vars

\* The last snapshot of the key taken so far, the initial baseline if none.
TeleLast ==
    LET snaps == TeleTaken(tlSnaps, tlAt)
    IN  IF snaps = <<>> THEN TeleBaseline(tlBase)
        ELSE normalizeTotals(snaps[Len(snaps)].tokens)

\* C36: whatever the batches, the sum of the deltas emitted for the key is,
\* on every axis, the last snapshot taken minus the initial baseline.
C36_DeltasTelescope ==
    \A a \in Axes : tlSum[a] = TeleLast[a] - TeleBaseline(tlBase)[a]

\* Three snapshots taken in two batches, two of them in one batch, on a
\* baseline that was not empty.
C36_Witness ==
    /\ tlAt = Len(tlSnaps)
    /\ tlBatches = 2
    /\ Len(TeleTaken(tlSnaps, tlAt)) = 3
    /\ TeleKey \in DOMAIN tlBase
    /\ tlSum.total = 8
    /\ tlSum.input = 3

(***************************************************************************)
(* SpecList: parseUsageSources on source lists that name a file several    *)
(* times, name directories, or leave out a file an earlier call read,      *)
(* while the files grow between the calls.                                 *)
(***************************************************************************)
ListPaths == {"a.jsonl", "c.json"}

ListEntries ==
    {[path |-> p, kind |-> "file"] : p \in ListPaths}
    \cup {[path |-> "sessions", kind |-> "directory"]}

ListLine == ObjectLine(M_GPT, "2026-01-01", FALSE, "none", [input |-> Num(2), output |-> Num(1)])

ListInit ==
    /\ lsFiles = [p \in ListPaths |-> [lines |-> <<>>, mtimeMs |-> 0]]
    /\ lsCursors = EmptyMap
    /\ lsList = <<>>
    /\ lsOut = NoParse
    /\ lsDone = FALSE
    /\ ListOthersIdle

ListAppend(path) ==
    /\ ~lsDone
    /\ Len(lsFiles[path].lines) < MaxBatch
    /\ lsFiles' = [lsFiles EXCEPT ![path] =
                      [lines |-> Append(@.lines, ListLine), mtimeMs |-> @.mtimeMs + 1]]
    /\ UNCHANGED <<lsCursors, lsList, lsOut, lsDone, listOthers>>

ListParse(sources) ==
    /\ ~lsDone
    /\ lsList' = sources
    /\ lsOut' = parseUsageSources(sources, lsCursors, lsFiles)
    /\ lsDone' = TRUE
    /\ UNCHANGED <<lsFiles, lsCursors, listOthers>>

ListStore ==
    /\ lsDone
    /\ lsCursors' = lsOut.cursors
    /\ lsList' = <<>>
    /\ lsOut' = NoParse
    /\ lsDone' = FALSE
    /\ UNCHANGED <<lsFiles, listOthers>>

ListNext ==
    \/ \E path \in ListPaths : ListAppend(path)
    \/ \E sources \in SeqsUpTo(ListEntries, MaxRecs) : ListParse(sources)
    \/ ListStore

SpecList == ListInit /\ [][ListNext]_vars

\* The paths the list names as files.
ListedFiles == {lsList[i].path : i \in {j \in DOMAIN lsList : lsList[j].kind = "file"}}

ListRecordsFrom(path) == SelectSeq(lsOut.records, LAMBDA r : r.source = path)

ListWarningsFor(path) == SelectSeq(lsOut.warnings, LAMBDA w : w.path = path)

\* What one parse of the file at path, with its stored cursor, returns.
ListParsedOnce(path) ==
    parseUsageFileWithCursor(path, lsFiles[path], StoredCursor(lsCursors, path))

\* C38: the call returns, for each path the list names as a file, however
\* often, the records, warnings and cursor of one parse of it; nothing for an
\* entry of kind directory; and for every path with a stored cursor that it
\* did not parse, that stored cursor.
C38_EachPathOnce ==
    lsDone =>
        /\ \A p \in ListedFiles :
             /\ ListRecordsFrom(p) = ListParsedOnce(p).records
             /\ ListWarningsFor(p) = pathWarnings(p, ListParsedOnce(p).warnings)
             /\ lsOut.cursors[p] = ListParsedOnce(p).cursor
        /\ ListRecordsFrom("sessions") = <<>>
        /\ ListWarningsFor("sessions") = <<>>
        /\ "sessions" \notin DOMAIN lsOut.cursors
        /\ \A p \in ListPaths \ ListedFiles :
             /\ ListRecordsFrom(p) = <<>>
             /\ StoredCursor(lsOut.cursors, p) = StoredCursor(lsCursors, p)
        /\ DOMAIN lsOut.cursors = DOMAIN lsCursors \cup ListedFiles

\* A list that names a.jsonl twice and a directory and leaves out c.json,
\* which an earlier call read: the new line of a.jsonl comes back once and
\* the cursor of c.json is returned as stored.
C38_Witness ==
    /\ lsDone
    /\ lsList = <<[path |-> "a.jsonl", kind |-> "file"],
                  [path |-> "sessions", kind |-> "directory"],
                  [path |-> "a.jsonl", kind |-> "file"]>>
    /\ Len(lsOut.records) = 1
    /\ "c.json" \in DOMAIN lsCursors
    /\ lsCursors["c.json"].lastLine = 1
    /\ lsOut.cursors["c.json"] = lsCursors["c.json"]
    /\ lsFiles["c.json"].mtimeMs > lsCursors["c.json"].lastMtimeMs

(***************************************************************************)
(* SpecPartial: a line-delimited file whose producer writes one of its     *)
(* lines in two parts, while the reader scans the file with the stored     *)
(* cursor at any moment: before the line, between its parts, or after it.  *)
(***************************************************************************)
PartDay == "2026-01-09"

\* The line written in two parts, and the lines written at once.
PartLine == ObjectLine(M_GPT, PartDay, FALSE, "none", [input |-> Num(4)])

PartLineSet ==
    {BlankLine,
     ObjectLine(M_GPT, "2026-01-01", FALSE, "none", [input |-> Num(2), output |-> Num(1)])}

PartInit ==
    /\ scanPath = "a.jsonl"
    /\ scanFile = [lines |-> <<>>, mtimeMs |-> 0]
    /\ scanCursor = <<>>
    /\ scanOut = NoScan
    /\ scanDone = FALSE
    /\ PartIdle
    /\ PartialOthersIdle

\* The last line of the file is unfinished.
PartPending == ptIndex > 0 /\ "rest" \in DOMAIN scanFile.lines[ptIndex]

\* A whole line is appended; not while a line is unfinished.
PartAppend(line) ==
    /\ ~PartPending
    /\ ScanAppend(line)
    /\ UNCHANGED partVars

\* The producer writes the first part of a line.
PartBegin ==
    /\ ~scanDone
    /\ ptIndex = 0
    /\ Len(scanFile.lines) < MaxLines
    /\ scanFile' = [lines |-> Append(scanFile.lines, PartialLine(PartLine)),
                    mtimeMs |-> scanFile.mtimeMs + 1]
    /\ ptIndex' = Len(scanFile.lines) + 1
    /\ UNCHANGED <<scanPath, scanCursor, scanOut, scanDone, ptSeenPartial, ptCount,
                   partialOthers>>

\* The producer writes the rest of the line and its newline.
PartFinish ==
    /\ ~scanDone
    /\ PartPending
    /\ scanFile' = [lines |-> [scanFile.lines EXCEPT ![ptIndex] = @.rest],
                    mtimeMs |-> scanFile.mtimeMs + 1]
    /\ UNCHANGED <<scanPath, scanCursor, scanOut, scanDone, partVars, partialOthers>>

\* A scan, with what it shows about the line written in two parts: a warning
\* for its number while it is unfinished, a record of its day once it is
\* whole.
PartScan ==
    /\ ~scanDone
    /\ \E out \in {parseUsageFileWithCursor(scanPath, scanFile, scanCursor)} :
         /\ scanOut' = out
         /\ ptSeenPartial' =
                (ptSeenPartial
                 \/ (PartPending /\ \E i \in DOMAIN out.warnings :
                                        out.warnings[i].line = ptIndex))
         /\ ptCount' = ptCount + Len(SelectSeq(out.records, LAMBDA r : r.day = PartDay))
    /\ scanDone' = TRUE
    /\ UNCHANGED <<scanPath, scanFile, scanCursor, ptIndex, partialOthers>>

PartStore ==
    /\ StoreCursor
    /\ UNCHANGED partVars

PartialNext ==
    \/ \E line \in PartLineSet : PartAppend(line)
    \/ PartBegin
    \/ PartFinish
    \/ PartScan
    \/ PartStore

SpecPartial == PartInit /\ [][PartialNext]_vars

\* The line is whole and the stored cursor is that of a scan that found it so.
PartSettled ==
    /\ ptIndex > 0
    /\ ~PartPending
    /\ ~scanDone
    /\ cursorUnchanged(scanCursor, statSync(scanFile))

\* C39: when a scan has read the unfinished line and a later scan has found
\* the line completed, the line's record has been returned by a scan, once.
C39_PartialLineNotLost ==
    (ptSeenPartial /\ PartSettled) => ptCount = 1

\* A line no scan read before it was whole is returned once, and no line is
\* ever returned twice.
WholeLineReturnedOnce ==
    /\ ptCount <= 1
    /\ (~ptSeenPartial /\ PartSettled) => ptCount = 1

\* A line a scan read unfinished is never returned by a later scan.
PartialLineNeverReturned == ptSeenPartial => ptCount = 0

\* The scans are up to date with the completed line and none returned it.
PartialLineLost ==
    /\ ptSeenPartial
    /\ PartSettled
    /\ ptCount = 0
    /\ scanCursor.lastLine = Len(scanFile.lines)

====
